---- MODULE Spec2Model ----
(***************************************************************************)
(* Model of the chunked summarizer of app/services/summarization_service.py *)
(* (SummarizationService): the platform lookup, the paragraph split, the    *)
(* payload builder, the completion call with its retry loop and the         *)
(* summarize coroutine that drives them.                                    *)
(*                                                                          *)
(* A Python str is a sequence.  A text is a sequence of one-character       *)
(* strings; a fixed phrase of the program (a prompt, a model name, a URL)   *)
(* is kept whole as one element.  None is a value no str equals.            *)
(***************************************************************************)
EXTENDS Integers, Sequences, FiniteSets, TLC

\* ------------------------------------------------------------------ bounds

\* Longest text handed to summarize.
MaxTextLen == 8

\* Longest text handed to _split_text when it is exercised on its own.
MaxSplitLen == 9

\* Longest text, in characters, handed to cleanup_text.
MaxCleanLen == 5

\* How many times the caller hands the result of cleanup_text back to it.
MaxRuns == 3

\* Deepest nesting of citation marks in a text handed to cleanup_text.
MaxNest == 2

\* Most pieces in a text handed to _normalize_unicode on its own.
MaxUnicodeLen == 2

\* Most lines of text before the blank lines of a document handed to
\* _remove_headers_footers on its own.
MaxHeadLines == 5

\* Most pieces of a text handed to _remove_page_numbers on its own.
MaxPageTokens == 4

\* Longest text handed to _normalize_sentences on its own.
MaxSentenceLen == 4

\* The longest text handed to _remove_special_patterns on its own, in pieces
\* (a letter, a blank, a bracket, a digit, the word of a reference).
MaxPatternLen == 4

\* The longest text handed to _fix_hyphenated_words on its own, in characters.
MaxHyphenLen == 5

\* The longest text handed to _join_broken_paragraphs on its own, in pieces
\* (a word, a word with a mark after it, a blank, a line break).
MaxParagraphLen == 5

\* The accounts there can be, the seeded super admin being the first.
MaxUsers == 3

\* The requests for a note that can be in progress together.
MaxRequests == 3

\* MAX_CHUNK_CHARS of the program is 6000 (summarization_service.py:25); the
\* model keeps the comparison and scales the number so that texts of a few
\* characters cross it.
MAX_CHUNK_CHARS == 6

\* ------------------------------------------------------- program constants

MAX_RETRIES == 2

RETRY_BASE_DELAY == 3

DEFAULT_LLM_PLATFORM == <<"groq">>

None == <<"None">>

\* Python truthiness of an Optional[str]: None and "" are false.
Falsy(v) == v = None \/ v = <<>>

NL == "\n"

SEP == <<NL, NL>>

\* Characters of the texts handed to summarize, and of the texts handed to
\* _split_text on its own.
Alphabet == {"a", NL}

SplitAlphabet == {"a", " ", NL}

\* The strings of length n over S.
SeqsOfLen(S, n) == [1..n -> S]

Min(S) == CHOOSE m \in S : \A k \in S : m <= k

Max(S) == CHOOSE m \in S : \A k \in S : m >= k

RECURSIVE Pow2(_)
Pow2(n) == IF n = 0 THEN 1 ELSE 2 * Pow2(n - 1)

\* str(n) for the small numbers the prompts print.
Str(n) == <<"0", "1", "2", "3", "4", "5", "6", "7", "8", "9", "10", "11", "12">>[n + 1]

\* ------------------------------------------------------------ str methods

\* str.isspace of the characters of the model: the ASCII ones and the spaces
\* outside ASCII.
WHITESPACE == {" ", NL, "\t", "U+00A0", "U+2002", "U+2003", "U+2009"}

IsSpace(c) == c \in WHITESPACE

\* s.strip()
Strip(s) ==
    LET keep == {k \in 1..Len(s) : ~IsSpace(s[k])}
    IN  IF keep = {} THEN <<>> ELSE SubSeq(s, Min(keep), Max(keep))

\* s.split("\n\n") from position k on, cur being the piece under construction:
\* separators are found left to right and do not overlap.
RECURSIVE SplitFrom(_, _, _)
SplitFrom(s, k, cur) ==
    IF k > Len(s) THEN <<cur>>
    ELSE IF k < Len(s) /\ s[k] = NL /\ s[k + 1] = NL
         THEN <<cur>> \o SplitFrom(s, k + 2, <<>>)
         ELSE SplitFrom(s, k + 1, Append(cur, s[k]))

SplitParas(s) == SplitFrom(s, 1, <<>>)

\* "\n\n".join(parts)
RECURSIVE Join(_)
Join(parts) ==
    IF parts = <<>> THEN <<>>
    ELSE IF Len(parts) = 1 THEN parts[1]
    ELSE parts[1] \o SEP \o Join(Tail(parts))

\* -------------------------------------------------------------- _split_text

\* len(para) + 2
ParaLen(para) == Len(para) + 2

\* Variant: the test looks at the paragraph alone, not at the running length.
ClosesChunk_ParagraphAlone(current_length, para_len, current_chunk) ==
    para_len > MAX_CHUNK_CHARS /\ current_chunk # <<>>

\* The test of the loop: close the current chunk before this paragraph.
ClosesChunk(current_length, para_len, current_chunk) ==
    current_length + para_len > MAX_CHUNK_CHARS /\ current_chunk # <<>>

\* The loop over paragraphs[k..], then the flush of the last chunk.
RECURSIVE SplitLoop(_, _, _, _, _)
SplitLoop(paragraphs, k, chunks, current_chunk, current_length) ==
    IF k > Len(paragraphs)
    THEN IF current_chunk # <<>> THEN Append(chunks, Join(current_chunk)) ELSE chunks
    ELSE LET para == paragraphs[k]
             para_len == ParaLen(para)
         IN  IF ClosesChunk(current_length, para_len, current_chunk)
             THEN SplitLoop(paragraphs, k + 1, Append(chunks, Join(current_chunk)),
                            <<para>>, para_len)
             ELSE SplitLoop(paragraphs, k + 1, chunks,
                            Append(current_chunk, para), current_length + para_len)

\* Variant: paragraphs that are blank are left out before the loop.
_split_text_SkipsBlankParagraphs(t) ==
    IF Len(t) <= MAX_CHUNK_CHARS THEN <<t>>
    ELSE SplitLoop(SelectSeq(SplitParas(t), LAMBDA p : Strip(p) # <<>>), 1, <<>>, <<>>, 0)

_split_text(t) ==
    IF Len(t) <= MAX_CHUNK_CHARS THEN <<t>>
    ELSE SplitLoop(SplitParas(t), 1, <<>>, <<>>, 0)

\* ------------------------------------------------- platforms and settings

GROQ == <<"groq">>

OPENROUTER == <<"openrouter">>

\* The PLATFORMS table.
PLATFORMS ==
    [p \in {GROQ, OPENROUTER} |->
        IF p = GROQ
        THEN [url |-> <<"https://api.groq.com/openai/v1/chat/completions">>,
              key_setting |-> "GROQ_API_KEY", model_setting |-> "GROQ_MODEL"]
        ELSE [url |-> <<"https://openrouter.ai/api/v1/chat/completions">>,
              key_setting |-> "OPENROUTER_API_KEY", model_setting |-> "OPENROUTER_MODEL"]]

\* The Settings object: the model names and the default platform are the
\* defaults of the class; one deployment sets the Groq key and leaves the
\* OpenRouter key empty, the other sets the OpenRouter key and leaves the Groq
\* key unset (None).
SettingsOf(g, o) ==
    [GROQ_API_KEY |-> g, GROQ_MODEL |-> <<"llama-3.1-8b-instant">>,
     OPENROUTER_API_KEY |-> o, OPENROUTER_MODEL |-> <<"meta-llama/llama-3.1-70b-versatile">>,
     DEFAULT_LLM_PLATFORM |-> DEFAULT_LLM_PLATFORM]

SettingsSet == {SettingsOf(<<"gsk-key">>, <<>>), SettingsOf(None, <<"sk-or-key">>)}

\* The platform argument of summarize: omitted, a known or an unknown key.
PlatformArgs == {None, GROQ, OPENROUTER, <<"azure">>}

\* The prompt argument of summarize: omitted or a custom instruction.
PromptArgs == {None, <<"List the key dates:">>}

NoError == [type |-> "", status |-> 0, detail |-> <<>>]

NoConfig == [ok |-> FALSE, error |-> NoError, url |-> None, api_key |-> None, model |-> None]

\* Variant: only an unset key counts as missing (`api_key is None`).
KeyMissing_NoneOnly(api_key) == api_key = None

\* `not api_key`
KeyMissing(api_key) == Falsy(api_key)

\* _get_platform_config: the configuration record, or the ValueError it raises
\* (ok = FALSE and the error).
_get_platform_config(s, p) ==
    IF p \notin DOMAIN PLATFORMS
    THEN [NoConfig EXCEPT !.error = [type |-> "ValueError", status |-> 0,
                                     detail |-> <<"Unknown platform '">> \o p \o <<"'.">>]]
    ELSE LET cfg == PLATFORMS[p]
             api_key == s[cfg.key_setting]
             model == s[cfg.model_setting]
         IN  IF KeyMissing(api_key)
             THEN [NoConfig EXCEPT !.error = [type |-> "ValueError", status |-> 0,
                                              detail |-> <<cfg.key_setting, " is not set.">>]]
             ELSE [ok |-> TRUE, error |-> NoError, url |-> cfg.url,
                   api_key |-> api_key, model |-> model]

\* ------------------------------------------------------------ _build_payload

SYSTEM_PROMPT == <<"You are an expert document summarizer. ...">>

DEFAULT_USER_PROMPT == <<"Please summarize the following document text:">>

COMBINE_PROMPT ==
    <<"The following are summaries of different sections of the same document. Combine them into a single coherent summary:">>

\* Variant: the part number is the index from 0 (part {i} of ...).
ChunkPrompt_FromZero(i, n) ==
    <<"Summarize this section (part ", Str(i), " of ", Str(n), "):">>

\* f"Summarize this section (part {i + 1} of {len(chunks)}):", i the index from 0.
ChunkPrompt(i, n) ==
    <<"Summarize this section (part ", Str(i + 1), " of ", Str(n), "):">>

\* `prompt or "Please summarize the following document text:"`
UserPrompt(pr) == IF Falsy(pr) THEN DEFAULT_USER_PROMPT ELSE pr

_build_payload(t, model, pr) ==
    [model |-> model,
     messages |-> << [role |-> "system", content |-> SYSTEM_PROMPT],
                     [role |-> "user", content |-> UserPrompt(pr) \o SEP \o t] >>]

NoPayload == [model |-> None, messages |-> <<>>]

\* ------------------------------------------------ the completion capability

\* Contents the capability may put in a choice: untrimmed text.
CONTENT_A == <<" ", "s", NL>>

CONTENT_B == <<"t", " ", "t">>

Choice(c) == [message |-> [content |-> c]]

\* The responses of one POST: 200 with no, one or two choices, 429, and another
\* failure.  `choices` is data.get("choices", []): a missing list is empty.
Responses ==
    {[status_code |-> 200, choices |-> ch, text |-> <<"{...}">>] :
        ch \in {<<>>, <<Choice(CONTENT_A)>>, <<Choice(CONTENT_B), Choice(CONTENT_A)>>}}
    \cup {[status_code |-> 429, choices |-> <<>>, text |-> <<"rate limit exceeded">>]}
    \cup {[status_code |-> 500, choices |-> <<>>, text |-> <<"internal error">>]}

NoResponse == [status_code |-> 0, choices |-> <<>>, text |-> <<>>]

\* Variant: the exponent counts the retry from 1 (2 ** (attempt + 1)).
BackoffDelay_ExponentFromOne(n) == RETRY_BASE_DELAY * Pow2(n + 1)

\* RETRY_BASE_DELAY * (2 ** attempt)
BackoffDelay(n) == RETRY_BASE_DELAY * Pow2(n)

\* Variant: the last attempt is retried too (attempt <= MAX_RETRIES).
Retries_LastAttemptToo(status_code, n) == status_code = 429 /\ n <= MAX_RETRIES

\* Variant: every failure status is retried, not 429 alone.
Retries_AnyFailure(status_code, n) == status_code # 200 /\ n < MAX_RETRIES

\* `response.status_code == 429 and attempt < MAX_RETRIES`
Retries(status_code, n) == status_code = 429 /\ n < MAX_RETRIES

\* ------------------------------------------- pdf_service.py: str and re
\* The text cleanup of app/services/pdf_service.py (PDFService.cleanup_text).
\* A character outside ASCII is written by the name of its code point, so
\* "U+2122" is the one character TRADE MARK SIGN.

ALPHABET_LOWER ==
    <<"a", "b", "c", "d", "e", "f", "g", "h", "i", "j", "k", "l", "m",
      "n", "o", "p", "q", "r", "s", "t", "u", "v", "w", "x", "y", "z">>

ALPHABET_UPPER ==
    <<"A", "B", "C", "D", "E", "F", "G", "H", "I", "J", "K", "L", "M",
      "N", "O", "P", "Q", "R", "S", "T", "U", "V", "W", "X", "Y", "Z">>

LOWER == {ALPHABET_LOWER[j] : j \in DOMAIN ALPHABET_LOWER}

UPPER == {ALPHABET_UPPER[j] : j \in DOMAIN ALPHABET_UPPER}

DIGITS == {"0", "1", "2", "3", "4", "5", "6", "7", "8", "9"}

\* \w and [.!?] of the re module, on the characters above.
WORD == LOWER \cup UPPER \cup DIGITS \cup {"_"}

TERMINAL == {".", "!", "?"}

\* c.lower() of an ASCII letter, for the patterns compiled with re.IGNORECASE.
Lower(c) ==
    IF c \in UPPER
    THEN ALPHABET_LOWER[CHOOSE j \in DOMAIN ALPHABET_UPPER : ALPHABET_UPPER[j] = c]
    ELSE c

\* The last index of the longest run of characters of Class at s[k..], k - 1
\* when s[k] is not in it: where a greedy `x*` or `x+` stops.
RunEnd(s, k, Class) ==
    LET stops == {j \in k..Len(s) : s[j] \notin Class}
    IN  IF stops = {} THEN Len(s) ELSE Min(stops) - 1

\* The same for the characters outside Class: `\S+` is the run up to the next
\* whitespace.
RunUntil(s, k, Class) ==
    LET stops == {j \in k..Len(s) : s[j] \in Class}
    IN  IF stops = {} THEN Len(s) ELSE Min(stops) - 1

\* The literal lit stands at s[k..]; under re.IGNORECASE the characters of s
\* are compared in lower case.
LitAt(s, k, lit, ignorecase) ==
    /\ k + Len(lit) - 1 <= Len(s)
    /\ \A j \in 1..Len(lit) : (IF ignorecase THEN Lower(s[k + j - 1]) ELSE s[k + j - 1]) = lit[j]

\* text.replace(old, new): the occurrences of old left to right, not overlapping.
RECURSIVE Replace(_, _, _, _)
Replace(s, k, old, new) ==
    IF k > Len(s) THEN <<>>
    ELSE IF LitAt(s, k, old, FALSE)
         THEN new \o Replace(s, k + Len(old), old, new)
         ELSE <<s[k]>> \o Replace(s, k + 1, old, new)

\* re.sub(pattern, repl, s) for a pattern that matches no empty string:
\* ends[k] is the last index of the match that starts at s[k] (0 when the
\* pattern does not match there) and repl[k, e] what replaces s[k..e]; the scan
\* goes left to right and resumes after each match.
Sub(s, ends, repl) ==
    LET out[k \in 1..(Len(s) + 1)] ==
            IF k > Len(s) THEN <<>>
            ELSE LET e == ends[k]
                 IN  IF e >= k THEN repl[k, e] \o out[e + 1]
                     ELSE <<s[k]>> \o out[k + 1]
    IN  out[1]

\* s[a..b].split("\n"): the lines of the two halves, the last line of the first
\* half and the first line of the second being one line.
RECURSIVE LinesOf(_, _, _)
LinesOf(s, a, b) ==
    IF a > b THEN << <<>> >>
    ELSE IF a = b THEN (IF s[a] = NL THEN << <<>>, <<>> >> ELSE << <<s[a]>> >>)
    ELSE LET m == (a + b) \div 2
             l == LinesOf(s, a, m)
             r == LinesOf(s, m + 1, b)
         IN  SubSeq(l, 1, Len(l) - 1) \o <<l[Len(l)] \o r[1]>> \o Tail(r)

\* s.split("\n")
SplitLines(s) == LinesOf(s, 1, Len(s))

\* sep.join(parts[a..b])
RECURSIVE JoinRange(_, _, _, _)
JoinRange(sep, parts, a, b) ==
    IF a > b THEN <<>>
    ELSE IF a = b THEN parts[a]
    ELSE LET m == (a + b) \div 2
         IN  JoinRange(sep, parts, a, m) \o sep \o JoinRange(sep, parts, m + 1, b)

\* sep.join(parts)
JoinWith(sep, parts) == JoinRange(sep, parts, 1, Len(parts))

\* ------------------------------------------------------- _normalize_unicode

\* unicodedata.normalize("NFKC", c) of one character: the characters of the
\* replacement table and the curly quotes that have a compatibility
\* decomposition, every other character (all of ASCII) being its own normal form.
NFKC_Char(c) ==
    CASE c = "U+2011" -> <<"U+2010">>
      [] c \in {"U+00A0", "U+2002", "U+2003", "U+2009"} -> <<" ">>
      [] c = "U+2026" -> <<".", ".", ".">>
      [] c = "U+2122" -> <<"T", "M">>
      [] c = "U+00BD" -> <<"1", "U+2044", "2">>
      [] c = "U+00BC" -> <<"1", "U+2044", "4">>
      [] c = "U+00BE" -> <<"3", "U+2044", "4">>
      [] c = "U+00B2" -> <<"2">>
      [] c = "U+00B3" -> <<"3">>
      [] OTHER -> <<c>>

\* unicodedata.normalize("NFKC", text)
RECURSIVE NFKC(_)
NFKC(s) == IF s = <<>> THEN <<>> ELSE NFKC_Char(s[1]) \o NFKC(Tail(s))

\* The dict `replacements`, in the order of its keys.  Its first key is the
\* seven characters between the triple quotes of line 39, and "'" is a key
\* where the source shows a quote between quotes.
REPLACEMENTS ==
    << <<<<":", " ", "'", "\"", "'", ",", " ">>, <<"\"">>>>,
       <<<<"U+201E">>, <<"\"">>>>, <<<<"U+201F">>, <<"\"">>>>,
       <<<<"'">>, <<"'">>>>,
       <<<<"U+201A">>, <<"'">>>>, <<<<"U+201B">>, <<"'">>>>,
       <<<<"U+00AB">>, <<"\"">>>>, <<<<"U+00BB">>, <<"\"">>>>,
       <<<<"U+2014">>, <<"-">>>>, <<<<"U+2013">>, <<"-">>>>, <<<<"U+2212">>, <<"-">>>>,
       <<<<"U+2010">>, <<"-">>>>, <<<<"U+2011">>, <<"-">>>>,
       <<<<"U+00A0">>, <<" ">>>>, <<<<"U+2002">>, <<" ">>>>, <<<<"U+2003">>, <<" ">>>>,
       <<<<"U+2009">>, <<" ">>>>, <<<<"U+200B">>, <<>>>>, <<<<"U+FEFF">>, <<>>>>,
       <<<<"U+2022">>, <<"-">>>>, <<<<"U+00B7">>, <<"-">>>>, <<<<"U+25CF">>, <<"-">>>>,
       <<<<"U+25CB">>, <<"-">>>>, <<<<"U+25A0">>, <<"-">>>>, <<<<"U+25A1">>, <<"-">>>>,
       <<<<"U+25AA">>, <<"-">>>>, <<<<"U+25AB">>, <<"-">>>>, <<<<"U+25BA">>, <<"-">>>>,
       <<<<"U+25B8">>, <<"-">>>>, <<<<"U+2023">>, <<"-">>>>,
       <<<<"U+2026">>, <<".", ".", ".">>>>,
       <<<<"U+00D7">>, <<"x">>>>, <<<<"U+00F7">>, <<"/">>>>,
       <<<<"U+2122">>, <<>>>>, <<<<"U+00AE">>, <<>>>>, <<<<"U+00A9">>, <<>>>>,
       <<<<"U+00B0">>, <<" ", "d", "e", "g", "r", "e", "e", "s", " ">>>>,
       <<<<"U+20AC">>, <<"E", "U", "R", " ">>>>, <<<<"U+00A3">>, <<"G", "B", "P", " ">>>>,
       <<<<"U+00A5">>, <<"J", "P", "Y", " ">>>>,
       <<<<"U+00BD">>, <<"1", "/", "2">>>>, <<<<"U+00BC">>, <<"1", "/", "4">>>>,
       <<<<"U+00BE">>, <<"3", "/", "4">>>>,
       <<<<"U+00B2">>, <<"2">>>>, <<<<"U+00B3">>, <<"3">>>> >>

\* `for old, new in replacements.items(): text = text.replace(old, new)`,
\* from entry k on.
RECURSIVE ReplaceEach(_, _)
ReplaceEach(s, k) ==
    IF k > Len(REPLACEMENTS) \/ s = <<>> THEN s
    ELSE ReplaceEach(Replace(s, 1, REPLACEMENTS[k][1], REPLACEMENTS[k][2]), k + 1)

_normalize_unicode(t) == ReplaceEach(NFKC(t), 1)

\* ---------------------------------------------------- _fix_hyphenated_words

\* re.sub(r"(\w+)-\s*\n\s*(\w+)", r"\1\2", text): a match is a run of word
\* characters, "-", a run of whitespace that holds a newline, a run of word
\* characters; the two runs of word characters replace it.
_fix_hyphenated_words(t) ==
    LET WordEnd(s, k) == RunEnd(s, k, WORD)
        SpaceEnd(s, k) == RunEnd(s, WordEnd(s, k) + 2, WHITESPACE)
        MatchEnd(s, k) ==
            LET r == WordEnd(s, k)
                w == SpaceEnd(s, k)
                e == RunEnd(s, w + 1, WORD)
            IN  IF /\ r >= k
                   /\ r + 1 <= Len(s)
                   /\ s[r + 1] = "-"
                   /\ \E j \in (r + 2)..w : s[j] = NL
                   /\ e >= w + 1
                THEN e ELSE 0
    IN  Sub(t, [k \in DOMAIN t |-> MatchEnd(t, k)],
            [k, e \in DOMAIN t |->
                SubSeq(t, k, WordEnd(t, k)) \o SubSeq(t, SpaceEnd(t, k) + 1, e)])

\* --------------------------------------------------- _remove_headers_footers

\* max(3, len(lines) // 50)
HeaderThreshold(n) == Max({3, n \div 50})

\* Variant: a line must occur more often than the threshold (count > threshold).
IsRepeated_MoreThan(count, threshold, line) == count > threshold /\ Len(line) < 100

\* `count >= threshold and len(line) < 100`
IsRepeated(count, threshold, line) == count >= threshold /\ Len(line) < 100

_remove_headers_footers(t) ==
    LET lines == SplitLines(t)
        stripped == [k \in DOMAIN lines |-> Strip(lines[k])]
        \* line_counts[l], l a stripped line that is not empty
        line_count(l) == Cardinality({k \in DOMAIN lines : stripped[k] = l})
        threshold == HeaderThreshold(Len(lines))
        repeated_lines == {stripped[k] : k \in {j \in DOMAIN lines :
                              /\ stripped[j] # <<>>
                              /\ IsRepeated(line_count(stripped[j]), threshold, stripped[j])}}
    IN  IF Len(lines) < 20 THEN t
        ELSE JoinWith(<<NL>>, SelectSeq(lines, LAMBDA line : Strip(line) \notin repeated_lines))

\* ------------------------------------------------------ _remove_page_numbers

\* stripped.isdigit()
StrIsDigit(l) == l # <<>> /\ \A k \in DOMAIN l : l[k] \in DIGITS \cup {"U+00B2", "U+00B3"}

\* The index after the whitespace run at l[k..] (`\s*`).
SkipSpace(l, k) == RunEnd(l, k, WHITESPACE) + 1

\* Variant: the words are set off by exactly one space ("page 3 of 10").
PagePattern_OneSpace(l) ==
    LET p == IF LitAt(l, 1, <<"p", "a", "g", "e", " ">>, TRUE) THEN 6 ELSE 1
        d == RunEnd(l, p, DIGITS)
        e == RunEnd(l, d + 5, DIGITS)
    IN  /\ d >= p
        /\ \/ d = Len(l)
           \/ /\ LitAt(l, d + 1, <<" ", "o", "f", " ">>, TRUE)
              /\ e >= d + 5
              /\ e = Len(l)

\* re.match(r"^(page\s*)?\d+(\s*of\s*\d+)?$", stripped, re.IGNORECASE)
PagePattern(l) ==
    LET p == IF LitAt(l, 1, <<"p", "a", "g", "e">>, TRUE) THEN SkipSpace(l, 5) ELSE 1
        d == RunEnd(l, p, DIGITS)
        o == SkipSpace(l, d + 1)
        q == SkipSpace(l, o + 2)
        e == RunEnd(l, q, DIGITS)
    IN  /\ d >= p
        /\ \/ d = Len(l)
           \/ /\ LitAt(l, o, <<"o", "f">>, TRUE)
              /\ e >= q
              /\ e = Len(l)

\* re.match(r"^-\s*\d+\s*-$", stripped)
DashPattern(l) ==
    LET a == SkipSpace(l, 2)
        d == RunEnd(l, a, DIGITS)
        b == SkipSpace(l, d + 1)
    IN  /\ Len(l) >= 1
        /\ l[1] = "-"
        /\ d >= a
        /\ b = Len(l)
        /\ l[b] = "-"

\* The loop's three tests on one line: the line is skipped.
IsPageNumberLine(line) ==
    LET stripped == Strip(line)
    IN  StrIsDigit(stripped) \/ PagePattern(stripped) \/ DashPattern(stripped)

_remove_page_numbers(t) ==
    JoinWith(<<NL>>, SelectSeq(SplitLines(t), LAMBDA line : ~IsPageNumberLine(line)))

\* --------------------------------------------------- _remove_special_patterns

\* re.sub(r"https?://\S+", "", text)
UrlSub(t) ==
    LET MatchEnd(s, k) ==
            LET p == IF LitAt(s, k + 4, <<"s">>, FALSE) THEN k + 5 ELSE k + 4
                e == RunUntil(s, p + 3, WHITESPACE)
            IN  IF /\ LitAt(s, k, <<"h", "t", "t", "p">>, FALSE)
                   /\ LitAt(s, p, <<":", "/", "/">>, FALSE)
                   /\ e >= p + 3
                THEN e ELSE 0
    IN  Sub(t, [k \in DOMAIN t |-> MatchEnd(t, k)], [k, e \in DOMAIN t |-> <<>>])

\* re.sub(r"www\.\S+", "", text)
WwwSub(t) ==
    LET MatchEnd(s, k) ==
            LET e == RunUntil(s, k + 4, WHITESPACE)
            IN  IF LitAt(s, k, <<"w", "w", "w", ".">>, FALSE) /\ e >= k + 4 THEN e ELSE 0
    IN  Sub(t, [k \in DOMAIN t |-> MatchEnd(t, k)], [k, e \in DOMAIN t |-> <<>>])

\* re.sub(r"\S+@\S+\.\S+", "", text): within the run of non-space characters
\* at s[k..], an "@" after at least one character, then a "." with at least
\* one character on either side; the last \S+ runs to the end of the run.
EmailSub(t) ==
    LET MatchEnd(s, k) ==
            LET r == RunUntil(s, k, WHITESPACE)
            IN  IF \E a \in (k + 1)..r :
                      s[a] = "@" /\ \E d \in (a + 2)..(r - 1) : s[d] = "."
                THEN r ELSE 0
    IN  Sub(t, [k \in DOMAIN t |-> MatchEnd(t, k)], [k, e \in DOMAIN t |-> <<>>])

\* re.sub(r"[A-Za-z]:\\[\w\\]+", "", text)
DrivePathSub(t) ==
    LET MatchEnd(s, k) ==
            LET e == RunEnd(s, k + 3, WORD \cup {"\\"})
            IN  IF /\ s[k] \in LOWER \cup UPPER
                   /\ LitAt(s, k + 1, <<":", "\\">>, FALSE)
                   /\ e >= k + 3
                THEN e ELSE 0
    IN  Sub(t, [k \in DOMAIN t |-> MatchEnd(t, k)], [k, e \in DOMAIN t |-> <<>>])

\* re.sub(r"/[\w/]+\.\w+", "", text)
FilePathSub(t) ==
    LET MatchEnd(s, k) ==
            LET m == RunEnd(s, k + 1, WORD \cup {"/"})
                e == RunEnd(s, m + 2, WORD)
            IN  IF /\ s[k] = "/"
                   /\ m >= k + 1
                   /\ LitAt(s, m + 1, <<".">>, FALSE)
                   /\ e >= m + 2
                THEN e ELSE 0
    IN  Sub(t, [k \in DOMAIN t |-> MatchEnd(t, k)], [k, e \in DOMAIN t |-> <<>>])

\* re.sub(r"\[?\d+\]", "", text)
CitationSub(t) ==
    LET MatchEnd(s, k) ==
            LET p == IF s[k] = "[" THEN k + 1 ELSE k
                d == RunEnd(s, p, DIGITS)
            IN  IF d >= p /\ LitAt(s, d + 1, <<"]">>, FALSE) THEN d + 1 ELSE 0
    IN  Sub(t, [k \in DOMAIN t |-> MatchEnd(t, k)], [k, e \in DOMAIN t |-> <<>>])

\* re.sub(r"fig(ure)?\.?\s*\d+", "", text, flags=re.IGNORECASE)
FigureSub(t) ==
    LET MatchEnd(s, k) ==
            LET u == IF LitAt(s, k + 3, <<"u", "r", "e">>, TRUE) THEN k + 6 ELSE k + 3
                p == IF LitAt(s, u, <<".">>, FALSE) THEN u + 1 ELSE u
                q == SkipSpace(s, p)
                e == RunEnd(s, q, DIGITS)
            IN  IF LitAt(s, k, <<"f", "i", "g">>, TRUE) /\ e >= q THEN e ELSE 0
    IN  Sub(t, [k \in DOMAIN t |-> MatchEnd(t, k)], [k, e \in DOMAIN t |-> <<>>])

\* re.sub(r"table\s*\d+", "", text, flags=re.IGNORECASE)
TableSub(t) ==
    LET MatchEnd(s, k) ==
            LET q == SkipSpace(s, k + 5)
                e == RunEnd(s, q, DIGITS)
            IN  IF LitAt(s, k, <<"t", "a", "b", "l", "e">>, TRUE) /\ e >= q THEN e ELSE 0
    IN  Sub(t, [k \in DOMAIN t |-> MatchEnd(t, k)], [k, e \in DOMAIN t |-> <<>>])

_remove_special_patterns(t) ==
    LET t1 == UrlSub(t)
        t2 == WwwSub(t1)
        t3 == EmailSub(t2)
        t4 == DrivePathSub(t3)
        t5 == FilePathSub(t4)
        t6 == CitationSub(t5)
        t7 == FigureSub(t6)
    IN  TableSub(t7)

\* --------------------------------------------------------- _clean_whitespace

\* Variant: the tabs are left in the text.
TabsToSpaces_TabsKept(t) == t

\* text.replace("\t", " ")
TabsToSpaces(t) == Replace(t, 1, <<"\t">>, <<" ">>)

\* re.sub(r" +", " ", text)
SpacesSub(t) ==
    LET MatchEnd(s, k) == RunEnd(s, k, {" "})
    IN  Sub(t, [k \in DOMAIN t |-> MatchEnd(t, k)], [k, e \in DOMAIN t |-> <<" ">>])

\* re.sub(r"\n{3,}", "\n\n", text)
NewlinesSub(t) ==
    LET MatchEnd(s, k) == LET e == RunEnd(s, k, {NL}) IN IF e - k + 1 >= 3 THEN e ELSE 0
    IN  Sub(t, [k \in DOMAIN t |-> MatchEnd(t, k)], [k, e \in DOMAIN t |-> <<NL, NL>>])

_clean_whitespace(t) ==
    LET t1 == TabsToSpaces(t)
        lines == SplitLines(SpacesSub(t1))
        t3 == JoinWith(<<NL>>, [k \in DOMAIN lines |-> Strip(lines[k])])
        t4 == NewlinesSub(t3)
    IN  Strip(t4)

\* -------------------------------------------------------- _remove_short_lines

\* The line is appended to cleaned_lines (min_length is 3): it is blank or of
\* three characters or more, and not re.match(r"^[\W\d]+$", stripped).
KeepsLine(line) ==
    LET stripped == Strip(line)
    IN  /\ stripped = <<>> \/ Len(stripped) >= 3
        /\ ~(/\ stripped # <<>>
              /\ \A k \in DOMAIN stripped : stripped[k] \notin WORD \/ stripped[k] \in DIGITS)

_remove_short_lines(t) == JoinWith(<<NL>>, SelectSeq(SplitLines(t), KeepsLine))

\* -------------------------------------------------------- _normalize_sentences

\* re.sub(r"([.!?])([A-Z])", r"\1 \2", text)
CapitalSub(t) ==
    LET MatchEnd(s, k) ==
            IF s[k] \in TERMINAL /\ k + 1 <= Len(s) /\ s[k + 1] \in UPPER THEN k + 1 ELSE 0
    IN  Sub(t, [k \in DOMAIN t |-> MatchEnd(t, k)],
            [k, e \in DOMAIN t |-> <<t[k], " ", t[e]>>])

\* re.sub(r",([A-Za-z])", r", \1", text)
CommaSub(t) ==
    LET MatchEnd(s, k) ==
            IF s[k] = "," /\ k + 1 <= Len(s) /\ s[k + 1] \in LOWER \cup UPPER
            THEN k + 1 ELSE 0
    IN  Sub(t, [k \in DOMAIN t |-> MatchEnd(t, k)],
            [k, e \in DOMAIN t |-> <<t[k], " ", t[e]>>])

\* re.sub(r"([.!?]){2,}", r"\1", text): the group holds the last mark of the run.
MarksSub(t) ==
    LET MatchEnd(s, k) == LET e == RunEnd(s, k, TERMINAL) IN IF e - k + 1 >= 2 THEN e ELSE 0
    IN  Sub(t, [k \in DOMAIN t |-> MatchEnd(t, k)], [k, e \in DOMAIN t |-> <<t[e]>>])

\* re.sub(r"\.{2,}", "...", text)
PeriodsSub(t) ==
    LET MatchEnd(s, k) == LET e == RunEnd(s, k, {"."}) IN IF e - k + 1 >= 2 THEN e ELSE 0
    IN  Sub(t, [k \in DOMAIN t |-> MatchEnd(t, k)],
            [k, e \in DOMAIN t |-> <<".", ".", ".">>])

_normalize_sentences(t) ==
    LET t1 == CapitalSub(t)
        t2 == CommaSub(t1)
        t3 == MarksSub(t2)
    IN  PeriodsSub(t3)

\* ----------------------------------------------------- _join_broken_paragraphs

\* Variant: the colon is left out of the class ([.!?]).
EndsSentence_NoColon(l) ==
    \E k \in DOMAIN l : /\ l[k] \in {".", "!", "?"}
                        /\ \A j \in (k + 1)..Len(l) : IsSpace(l[j])

\* re.search(r"[.!?:]\s*$", prev_line), prev_line holding no newline.
EndsSentence(l) ==
    \E k \in DOMAIN l : /\ l[k] \in {".", "!", "?", ":"}
                        /\ \A j \in (k + 1)..Len(l) : IsSpace(l[j])

\* Variant: the paragraph is appended without the test `if current_paragraph`.
Flushed_Untested(res, current_paragraph) ==
    Append(res, JoinWith(<<" ">>, current_paragraph))

\* " ".join(current_paragraph) appended to result when the paragraph is not empty.
Flushed(res, current_paragraph) ==
    IF current_paragraph # <<>> THEN Append(res, JoinWith(<<" ">>, current_paragraph)) ELSE res

\* The loop over lines[k..], then the flush of the last paragraph.
RECURSIVE ParagraphLoop(_, _, _, _)
ParagraphLoop(lines, k, res, current_paragraph) ==
    IF k > Len(lines) THEN Flushed(res, current_paragraph)
    ELSE LET stripped == Strip(lines[k])
         IN  IF stripped = <<>>
             THEN ParagraphLoop(lines, k + 1, Flushed(res, current_paragraph), <<>>)
             ELSE IF /\ current_paragraph # <<>>
                     /\ ~EndsSentence(current_paragraph[Len(current_paragraph)])
                  THEN ParagraphLoop(lines, k + 1, res, Append(current_paragraph, stripped))
                  ELSE ParagraphLoop(lines, k + 1, Flushed(res, current_paragraph), <<stripped>>)

_join_broken_paragraphs(t) == JoinWith(<<NL, NL>>, ParagraphLoop(SplitLines(t), 1, <<>>, <<>>))

\* ------------------------------------------------------------- cleanup_text

\* Variant: the final whitespace pass is left out.
STAGES_NoFinalPass ==
    <<"_normalize_unicode", "_fix_hyphenated_words", "_remove_headers_footers",
      "_remove_page_numbers", "_remove_special_patterns", "_clean_whitespace",
      "_remove_short_lines", "_normalize_sentences", "_join_broken_paragraphs">>

\* The stages of cleanup_text in the order of its statements: STAGES[n] names
\* the method statement n calls.
STAGES ==
    <<"_normalize_unicode", "_fix_hyphenated_words", "_remove_headers_footers",
      "_remove_page_numbers", "_remove_special_patterns", "_clean_whitespace",
      "_remove_short_lines", "_normalize_sentences", "_join_broken_paragraphs",
      "_clean_whitespace">>

\* self.<name>(t)
CallStage(name, t) ==
    CASE name = "_normalize_unicode" -> _normalize_unicode(t)
      [] name = "_fix_hyphenated_words" -> _fix_hyphenated_words(t)
      [] name = "_remove_headers_footers" -> _remove_headers_footers(t)
      [] name = "_remove_page_numbers" -> _remove_page_numbers(t)
      [] name = "_remove_special_patterns" -> _remove_special_patterns(t)
      [] name = "_clean_whitespace" -> _clean_whitespace(t)
      [] name = "_remove_short_lines" -> _remove_short_lines(t)
      [] name = "_normalize_sentences" -> _normalize_sentences(t)
      [] name = "_join_broken_paragraphs" -> _join_broken_paragraphs(t)

\* ------------------------------------------------------------------- state

VARIABLES
    settings,           \* the Settings object
    text,               \* summarize's arguments and locals
    platform,
    prompt,
    config,
    chunks,
    i,                  \* index (from 0) of the chunk being summarized
    partial_summaries,
    result,             \* the dict summarize returned
    error,              \* the exception summarize raised
    pc,                 \* "idle", "await" (a POST is in flight), "sleep" (in
                        \* asyncio.sleep), "back" (_call_llm has returned to
                        \* summarize), "returned", "raised", "split", "cleanup"
                        \* (in cleanup_text), "cleaned" (it has returned),
                        \* "applied" (one method of the cleanup has returned),
                        \* "responded" (the endpoint has answered the client)
    site,               \* which call of _call_llm is running: "single",
                        \* "chunk", "combine", "chat" for the call of the
                        \* chat endpoint ("" when none)
    payload,            \* _call_llm's argument and locals
    attempt,
    delay,
    response,
    returned,           \* the value _call_llm returned
    posts,              \* history: POSTs sent by the running _call_llm
    total_posts,        \* history: POSTs sent by all the calls so far
    answers,            \* history: the status codes it received, in order
    waits,              \* history: the delays it slept, in order
    calls,              \* history: the payload of every _call_llm started
    contents,           \* history: what every _call_llm that returned, returned
    raw_text,           \* the text the caller of the cleanup holds
    stage,              \* cleanup_text: the number of its stage statements done
    ran,                \* history: the methods the running cleanup_text (or the
                        \* caller of one method) has called, in order
    cleaned,            \* history: what every call that returned, returned
    http,               \* the response the endpoint sent to the client
    users,              \* the rows of table users, by id: role and is_active
                        \* (NoUser where there is no row)
    tokens,             \* the ids for which an access token has been issued
    reply,              \* the last request to a users endpoint and its status
    views,              \* column views of the row of the note, as committed
    sessions            \* the requests for the note: where each stands, the
                        \* views its session holds, its status

vars == <<settings, text, platform, prompt, config, chunks, i, partial_summaries,
          result, error, pc, site, payload, attempt, delay, response, returned,
          posts, total_posts, answers, waits, calls, contents, raw_text, stage, ran,
          cleaned, http, users, tokens, reply, views, sessions>>

sumLocals == <<config, chunks, i, partial_summaries>>

callLocals == <<payload, attempt, delay, response, posts, total_posts, answers, waits>>

cleanupVars == <<raw_text, stage, ran, cleaned>>

dbVars == <<users, tokens, reply, views, sessions>>

NoResult == [summary |-> <<>>, platform |-> None, model |-> None, chunks_processed |-> -1]

\* HTTPException(status_code, detail) as the client receives it.
HTTPException(status_code, detail) ==
    [status_code |-> status_code, detail |-> detail, data |-> <<>>]

NoHttp == HTTPException(0, <<>>)

\* No row for this id in table users.
NoUser == [role |-> "", is_active |-> FALSE]

NoReply == [endpoint |-> "", caller |-> 0, target |-> 0, status_code |-> 0]

\* A request that has not come in.
NoSession == [pc |-> "idle", views |-> 0, status_code |-> 0]

\* The state before any call, but for the texts the caller holds.
InitService ==
    /\ settings \in SettingsSet
    /\ platform = None
    /\ prompt = None
    /\ config = NoConfig
    /\ chunks = <<>>
    /\ i = 0
    /\ partial_summaries = <<>>
    /\ result = NoResult
    /\ error = NoError
    /\ pc = "idle"
    /\ site = ""
    /\ payload = NoPayload
    /\ attempt = 0
    /\ delay = 0
    /\ response = NoResponse
    /\ returned = None
    /\ posts = 0
    /\ total_posts = 0
    /\ answers = <<>>
    /\ waits = <<>>
    /\ calls = <<>>
    /\ contents = <<>>
    /\ stage = 0
    /\ ran = <<>>
    /\ cleaned = <<>>
    /\ http = NoHttp
    /\ users = [u \in 1..MaxUsers |->
                   IF u = 1 THEN [role |-> "super_admin", is_active |-> TRUE] ELSE NoUser]
    /\ tokens = {}
    /\ reply = NoReply
    /\ views = 0
    /\ sessions = [r \in 1..MaxRequests |-> NoSession]

\* The service is constructed and a caller holds the text it will pass.
Init ==
    /\ \E n \in 0..MaxTextLen : text \in SeqsOfLen(Alphabet, n)
    /\ raw_text = <<>>
    /\ InitService

\* ------------------------------------------------------------------ steps
\* A step runs the coroutine from one suspension point (the awaited POST, the
\* awaited sleep) to the next, or to its return or raise.

\* Variant: only the empty string counts as blank (`not text`).
IsBlank_EmptyOnly(t) == t = <<>>

\* `not text.strip()`
IsBlank(t) == Strip(t) = <<>>

\* `platform or settings.DEFAULT_LLM_PLATFORM`
EffectivePlatform(plat, s) == IF Falsy(plat) THEN s.DEFAULT_LLM_PLATFORM ELSE plat

\* Variant: the loop stops one chunk early.
HasNextChunk_StopsEarly(k, cs) == k + 2 < Len(cs)

\* The loop `for i, chunk in enumerate(chunks)` has a chunk after index k.
HasNextChunk(k, cs) == k + 1 < Len(cs)

\* The index the loop takes after index k.
NextChunkIndex(k) == k + 1

\* Variant: the chunks are taken from the end (chunks[-1 - k]).
ChunkPayload_Reversed(cs, k, model) ==
    _build_payload(cs[Len(cs) - k], model, ChunkPrompt(k, Len(cs)))

\* The payload of the call for chunks[k] (k from 0) in the multi-chunk path.
ChunkPayload(cs, k, model) == _build_payload(cs[k + 1], model, ChunkPrompt(k, Len(cs)))

\* The payload of the combine call.
CombinePayload(ps, model) == _build_payload(Join(ps), model, COMBINE_PROMPT)

\* The text a summary is returned as: `.strip()` of the content.
Trimmed(content) == Strip(content)

\* Variant: the attempt counter is kept from the call before (one budget of
\* retries for the whole summarize).
EnterCall_AttemptKept(pl, s) ==
    /\ site' = s
    /\ payload' = pl
    /\ attempt' = attempt
    /\ delay' = 0
    /\ response' = NoResponse
    /\ posts' = 1
    /\ total_posts' = total_posts + 1
    /\ answers' = <<>>
    /\ waits' = <<>>
    /\ calls' = Append(calls, pl)
    /\ pc' = "await"

\* _call_llm is entered with payload pl at call site s and sends its first POST.
EnterCall(pl, s) ==
    /\ site' = s
    /\ payload' = pl
    /\ attempt' = 0
    /\ delay' = 0
    /\ response' = NoResponse
    /\ posts' = 1
    /\ total_posts' = total_posts + 1
    /\ answers' = <<>>
    /\ waits' = <<>>
    /\ calls' = Append(calls, pl)
    /\ pc' = "await"

Returns(res) == pc' = "returned" /\ result' = res /\ error' = error

\* Variant: the exception is swallowed and the summaries gathered so far are
\* returned.
Raises_PartialSummary(e) ==
    /\ pc' = "returned"
    /\ result' = [summary |-> Join(partial_summaries), platform |-> platform,
                  model |-> config.model, chunks_processed |-> Len(partial_summaries)]
    /\ error' = error

Raises(e) == pc' = "raised" /\ error' = e /\ result' = result

\* summarize(text, platform, prompt), up to its first await, return or raise.
Summarize(t, plat, pr) ==
    /\ pc = "idle"
    /\ prompt' = pr
    /\ UNCHANGED <<settings, text, cleanupVars, http, dbVars>>
    /\ IF IsBlank(t)
       THEN /\ platform' = plat
            /\ Returns([summary |-> <<>>, chunks_processed |-> 0])
            /\ UNCHANGED <<sumLocals, site, callLocals, returned, calls, contents>>
       ELSE LET p == EffectivePlatform(plat, settings)
                cfg == _get_platform_config(settings, p)
            IN  /\ platform' = p
                /\ IF ~cfg.ok
                   THEN /\ Raises(cfg.error)
                        /\ UNCHANGED <<sumLocals, site, callLocals, returned, calls, contents>>
                   ELSE LET cs == _split_text(t)
                        IN  /\ config' = cfg
                            /\ chunks' = cs
                            /\ i' = 0
                            /\ partial_summaries' = <<>>
                            /\ UNCHANGED <<result, error, returned, contents>>
                            /\ IF Len(cs) = 1
                               THEN EnterCall(_build_payload(cs[1], cfg.model, pr), "single")
                               ELSE EnterCall(ChunkPayload(cs, 0, cfg.model), "chunk")

\* summarize takes the value _call_llm returned and runs on to its next await
\* or to its return.
Resume ==
    /\ pc = "back"
    /\ site # "chat"
    /\ returned' = None
    /\ UNCHANGED <<settings, text, platform, prompt, config, chunks, error, contents,
                   cleanupVars, http, dbVars>>
    /\ IF site = "chunk"
       THEN LET ps == Append(partial_summaries, Trimmed(returned))
            IN  /\ partial_summaries' = ps
                /\ result' = result
                /\ IF HasNextChunk(i, chunks)
                   THEN /\ i' = NextChunkIndex(i)
                        /\ EnterCall(ChunkPayload(chunks, NextChunkIndex(i), config.model), "chunk")
                   ELSE /\ i' = i
                        /\ EnterCall(CombinePayload(ps, config.model), "combine")
       ELSE /\ pc' = "returned"
            /\ result' = [summary |-> Trimmed(returned), platform |-> platform,
                          model |-> config.model,
                          chunks_processed |-> IF site = "single" THEN 1 ELSE Len(chunks)]
            /\ UNCHANGED <<i, partial_summaries, site, callLocals, calls>>

\* The exception raised in _call_llm propagates through summarize.
CallRaises(e) ==
    /\ Raises(e)
    /\ UNCHANGED <<settings, text, platform, prompt, sumLocals, site, payload,
                   attempt, delay, posts, total_posts, waits, returned, calls, contents,
                   cleanupVars, http, dbVars>>

\* The POST is answered 200: with no choice the call raises, else it returns the
\* content of the first choice.
Respond200(r) ==
    /\ pc = "await"
    /\ r.status_code = 200
    /\ response' = r
    /\ answers' = Append(answers, r.status_code)
    /\ IF r.choices = <<>>
       THEN CallRaises([type |-> "RuntimeError", status |-> 200,
                        detail |-> <<"LLM returned no choices in the response.">>])
       ELSE /\ pc' = "back"
            /\ returned' = r.choices[1].message.content
            /\ contents' = Append(contents, r.choices[1].message.content)
            /\ UNCHANGED <<settings, text, platform, prompt, sumLocals, result, error,
                           site, payload, attempt, delay, posts, total_posts, waits, calls,
                           cleanupVars, http, dbVars>>

\* The POST is answered 429 with retries left: the call goes to sleep.
RespondRetry(r) ==
    /\ pc = "await"
    /\ r.status_code # 200
    /\ Retries(r.status_code, attempt)
    /\ response' = r
    /\ answers' = Append(answers, r.status_code)
    /\ delay' = BackoffDelay(attempt)
    /\ waits' = Append(waits, BackoffDelay(attempt))
    /\ pc' = "sleep"
    /\ UNCHANGED <<settings, text, platform, prompt, sumLocals, result, error, site,
                   payload, attempt, posts, total_posts, returned, calls, contents,
                   cleanupVars, http, dbVars>>

\* The POST is answered otherwise: non-retryable, or retries exhausted.
RespondError(r) ==
    /\ pc = "await"
    /\ r.status_code # 200
    /\ ~Retries(r.status_code, attempt)
    /\ response' = r
    /\ answers' = Append(answers, r.status_code)
    /\ CallRaises([type |-> "RuntimeError", status |-> r.status_code, detail |-> r.text])

\* client.post raises (a timeout, a connection error): nothing catches it.
PostRaises ==
    /\ pc = "await"
    /\ UNCHANGED <<response, answers>>
    /\ CallRaises([type |-> "httpx.HTTPError", status |-> 0, detail |-> <<"request failed">>])

\* `for attempt in range(MAX_RETRIES + 1)` has an iteration after attempt n.
LoopContinues(n) == n + 1 < MAX_RETRIES + 1

\* asyncio.sleep(delay) is over: `continue`.  The next iteration sends the next
\* POST; were the range exhausted the function would fall off its end, return
\* None, and summarize's `.strip()` would raise.
Wake ==
    /\ pc = "sleep"
    /\ IF LoopContinues(attempt)
       THEN /\ attempt' = attempt + 1
            /\ posts' = posts + 1
            /\ total_posts' = total_posts + 1
            /\ pc' = "await"
            /\ UNCHANGED <<result, error>>
       ELSE /\ Raises([type |-> "AttributeError", status |-> 0,
                       detail |-> <<"'NoneType' object has no attribute 'strip'">>])
            /\ UNCHANGED <<attempt, posts, total_posts>>
    /\ UNCHANGED <<settings, text, platform, prompt, sumLocals, site,
                   payload, delay, response, answers, waits, returned, calls, contents,
                   cleanupVars, http, dbVars>>

Next ==
    \/ \E plat \in PlatformArgs, pr \in PromptArgs : Summarize(text, plat, pr)
    \/ \E r \in Responses : Respond200(r)
    \/ \E r \in Responses : RespondRetry(r)
    \/ \E r \in Responses : RespondError(r)
    \/ PostRaises
    \/ Resume
    \/ Wake

Spec == Init /\ [][Next]_vars

\* ------------------------------------------- _split_text exercised on its own

\* The caller holds a text.
InitSplit ==
    /\ \E n \in 0..MaxSplitLen : text \in SeqsOfLen(SplitAlphabet, n)
    /\ raw_text = <<>>
    /\ InitService
    /\ settings.GROQ_API_KEY = None

\* _split_text(text) is called on the service object.
SplitText ==
    /\ pc = "idle"
    /\ chunks' = _split_text(text)
    /\ pc' = "split"
    /\ UNCHANGED <<settings, text, platform, prompt, config, i, partial_summaries,
                   result, error, site, callLocals, returned, calls, contents, cleanupVars, http, dbVars>>

NextSplit == SplitText

SpecSplit == InitSplit /\ [][NextSplit]_vars

\* ---------------------------------- the endpoints that call the capability
\* POST /pdf/summarize (pdf.py) and POST /chat/note/{id} (chat.py), from the
\* point where the PDF has been read and cleaned: text is cleaned_text, or
\* doc_text, shorter than the 12000 characters chat.py cuts it to.

\* summarize_pdf: the check of the cleaned text, then
\* `await summarization_service.summarize(cleaned_text, platform=platform)`.
SummarizePdf(plat) ==
    IF IsBlank(text)
    THEN /\ pc = "idle"
         /\ http' = HTTPException(400, <<"No text could be extracted from this PDF.">>)
         /\ pc' = "responded"
         /\ UNCHANGED <<settings, text, platform, prompt, sumLocals, result, error, site,
                        callLocals, returned, calls, contents, cleanupVars, dbVars>>
    ELSE Summarize(text, plat, None)

\* chat_about_note: the check of the document text, the configuration of the
\* default platform, then `await summarization_service._call_llm(...)` with
\* the payload built around the document and the question.
ChatAboutNote ==
    /\ pc = "idle"
    /\ UNCHANGED <<settings, text, prompt, chunks, i, partial_summaries, result,
                   returned, contents, cleanupVars, dbVars>>
    /\ IF IsBlank(text)
       THEN /\ http' = HTTPException(400, <<"Could not extract text from this document.">>)
            /\ pc' = "responded"
            /\ UNCHANGED <<platform, config, error, site, callLocals, calls>>
       ELSE LET cfg == _get_platform_config(settings, settings.DEFAULT_LLM_PLATFORM)
            IN  /\ platform' = settings.DEFAULT_LLM_PLATFORM
                /\ http' = http
                /\ IF ~cfg.ok
                   THEN /\ pc' = "raised"
                        /\ error' = cfg.error
                        /\ site' = "chat"
                        /\ UNCHANGED <<config, callLocals, calls>>
                   ELSE /\ config' = cfg
                        /\ error' = error
                        /\ EnterCall([model |-> cfg.model,
                                      messages |->
                                          << [role |-> "system",
                                              content |-> <<"You are an AI study assistant for PathshalaAI. ...">>],
                                             [role |-> "user",
                                              content |-> <<"The user is reading a study note ... ---">>
                                                          \o text \o <<"--- ... Question: ...">>] >>],
                                     "chat")

\* Variant: every exception is answered with its own message (detail=str(e)).
ExceptClauses_DetailFromError(e, fixed) == HTTPException(500, e.detail)

\* The except clauses of both handlers: `except ValueError as e` answers 500
\* with str(e), `except Exception` answers 500 with the handler's fixed detail.
ExceptClauses(e, fixed) ==
    IF e.type = "ValueError" THEN HTTPException(500, e.detail) ELSE HTTPException(500, fixed)

\* The handler whose awaited call has returned or raised (handler is "chat" or
\* "pdf") answers the client: 200 with the data, or what its except clauses make
\* of the exception.
Answers(handler, data, fixed) ==
    /\ (site = "chat") = (handler = "chat")
    /\ pc \in {IF handler = "chat" THEN "back" ELSE "returned", "raised"}
    /\ http' = IF pc = "raised" THEN ExceptClauses(error, fixed)
               ELSE [status_code |-> 200, detail |-> <<>>, data |-> data]
    /\ pc' = "responded"
    /\ UNCHANGED <<settings, text, platform, prompt, sumLocals, result, error, site,
                   callLocals, returned, calls, contents, cleanupVars, dbVars>>

\* Bodies of failure responses beside those of Responses: what one upstream
\* says to one account and not to another.
OtherBodies ==
    {[status_code |-> 429, choices |-> <<>>, text |-> <<"rate limit of org-1 exceeded">>],
     [status_code |-> 500, choices |-> <<>>, text |-> <<"internal error at node-7">>]}

\* A request has come in and its PDF was read and cleaned: no text, a short
\* text, a text of two chunks.
InitHttp ==
    /\ text \in {<<" ">>, <<"a">>, <<"a", "a", "a", NL, NL, "a", "a", "a">>}
    /\ raw_text = <<>>
    /\ InitService

NextHttp ==
    \/ \E plat \in PlatformArgs : SummarizePdf(plat)
    \/ ChatAboutNote
    \/ \E r \in Responses : Respond200(r)
    \/ \E r \in Responses \cup OtherBodies : RespondRetry(r)
    \/ \E r \in Responses \cup OtherBodies : RespondError(r)
    \/ PostRaises
    \/ Resume
    \/ Wake
    \/ Answers("pdf", result.summary,
               <<"Error summarizing PDF. Check server logs for details.">>)
    \/ Answers("chat", Strip(returned),
               <<"Error processing your question. Please try again.">>)

SpecHttp == InitHttp /\ [][NextHttp]_vars

\* ------------------------------------------------- the users endpoints
\* app/api/v1/endpoints/users.py behind the dependencies of app/dependencies.py.
\* A handler runs in one step with the commit of its session (get_db).  An
\* account is known by its id; the email of a request names the id it has or
\* would get, the bearer token of a request names its subject (caller).

\* Everything but the tables.
serviceVars == <<settings, text, platform, prompt, sumLocals, result, error, pc, site,
                 callLocals, returned, calls, contents, cleanupVars, http>>

\* Variant: the guard looks at the role alone.
require_role_RoleOnly(allowed_roles, caller) ==
    IF caller \notin tokens \/ users[caller] = NoUser THEN 401
    ELSE IF users[caller].role \notin allowed_roles THEN 403
    ELSE 200

\* get_current_user and the _guard of require_role(*allowed_roles): the
\* status they raise, 200 when they let the request through.
require_role(allowed_roles, caller) ==
    IF caller \notin tokens \/ users[caller] = NoUser THEN 401
    ELSE IF users[caller].role \notin allowed_roles THEN 403
    ELSE IF users[caller].role \in {"admin", "super_admin"} /\ ~users[caller].is_active THEN 403
    ELSE 200

\* The handler answers, and its session is committed (or rolled back, the
\* tables as they were) with rows us and the tokens tk issued.
Responds(endpoint, caller, target, status_code, us, tk) ==
    /\ reply' = [endpoint |-> endpoint, caller |-> caller, target |-> target,
                 status_code |-> status_code]
    /\ users' = us
    /\ tokens' = tk
    /\ UNCHANGED <<serviceVars, views, sessions>>

\* POST /register
RegisterUser(email, role) ==
    IF role # "student" THEN Responds("register", 0, email, 403, users, tokens)
    ELSE IF users[email] # NoUser THEN Responds("register", 0, email, 409, users, tokens)
    ELSE Responds("register", 0, email, 200,
                  [users EXCEPT ![email] = [role |-> "student", is_active |-> TRUE]],
                  tokens \cup {email})

\* POST /login
LoginUser(email, password_ok) ==
    IF users[email] = NoUser \/ ~password_ok
    THEN Responds("login", 0, email, 401, users, tokens)
    ELSE IF ~users[email].is_active THEN Responds("login", 0, email, 403, users, tokens)
    ELSE Responds("login", 0, email, 200, users, tokens \cup {email})

\* POST /create-admin
CreateAdmin(caller, email, role) ==
    LET guard == require_role({"super_admin"}, caller)
    IN  IF guard # 200 THEN Responds("create-admin", caller, email, guard, users, tokens)
        ELSE IF role \notin {"admin", "super_admin"}
        THEN Responds("create-admin", caller, email, 400, users, tokens)
        ELSE IF users[email] # NoUser
        THEN Responds("create-admin", caller, email, 409, users, tokens)
        ELSE Responds("create-admin", caller, email, 200,
                      [users EXCEPT ![email] = [role |-> role, is_active |-> TRUE]], tokens)

\* Variant: the target's role is not looked at.
ToggleUserActive_AnyRole(caller, target) ==
    LET guard == require_role({"super_admin"}, caller)
    IN  IF guard # 200 THEN Responds("toggle-active", caller, target, guard, users, tokens)
        ELSE IF users[target] = NoUser
        THEN Responds("toggle-active", caller, target, 404, users, tokens)
        ELSE IF target = caller
        THEN Responds("toggle-active", caller, target, 400, users, tokens)
        ELSE Responds("toggle-active", caller, target, 200,
                      [users EXCEPT ![target].is_active = ~users[target].is_active], tokens)

\* PATCH /{user_id}/toggle-active
ToggleUserActive(caller, target) ==
    LET guard == require_role({"super_admin"}, caller)
    IN  IF guard # 200 THEN Responds("toggle-active", caller, target, guard, users, tokens)
        ELSE IF users[target] = NoUser
        THEN Responds("toggle-active", caller, target, 404, users, tokens)
        ELSE IF users[target].role = "super_admin"
        THEN Responds("toggle-active", caller, target, 403, users, tokens)
        ELSE IF target = caller
        THEN Responds("toggle-active", caller, target, 400, users, tokens)
        ELSE Responds("toggle-active", caller, target, 200,
                      [users EXCEPT ![target].is_active = ~users[target].is_active], tokens)

\* GET / (list_users), an endpoint behind require_admin that writes nothing.
ListUsers(caller) ==
    LET guard == require_role({"admin", "super_admin"}, caller)
    IN  Responds("list-users", caller, 0, guard, users, tokens)

\* The seeded super admin is the one account.
InitUsers ==
    /\ text = <<>>
    /\ raw_text = <<>>
    /\ InitService
    /\ settings.GROQ_API_KEY = None

NextUsers ==
    \/ \E email \in 1..MaxUsers, role \in {"student", "admin"} : RegisterUser(email, role)
    \/ \E email \in 1..MaxUsers, password_ok \in BOOLEAN : LoginUser(email, password_ok)
    \/ \E caller, email \in 1..MaxUsers, role \in {"student", "admin", "super_admin"} :
          CreateAdmin(caller, email, role)
    \/ \E caller, target \in 1..MaxUsers : ToggleUserActive(caller, target)
    \/ \E caller \in 1..MaxUsers : ListUsers(caller)

SpecUsers == InitUsers /\ [][NextUsers]_vars

\* ---------------------------------------------------- the note endpoint
\* GET /notes/{note_id} of app/api/v1/endpoints/notes.py.  Every request has
\* a session of its own (get_db): the handler reads the row and sets views
\* on the object of its session; the UPDATE is flushed and committed when
\* the request ends.  Requests overlap between the two.

\* get_note up to its return: the SELECT and the assignment in the session,
\* or the 404 for an id that is no note's (the session is rolled back).
GetNote(r, found) ==
    /\ sessions[r].pc = "idle"
    /\ sessions' = [sessions EXCEPT ![r] =
                      IF found
                      THEN [pc |-> "open", views |-> views + 1, status_code |-> 200]
                      ELSE [pc |-> "closed", views |-> 0, status_code |-> 404]]
    /\ UNCHANGED <<serviceVars, users, tokens, reply, views>>

\* get_db after the yield: session.commit() writes the views of the session.
Commit(r) ==
    /\ sessions[r].pc = "open"
    /\ views' = sessions[r].views
    /\ sessions' = [sessions EXCEPT ![r].pc = "closed"]
    /\ UNCHANGED <<serviceVars, users, tokens, reply>>

\* The note is stored with no view yet and no request has come in.
InitNotes ==
    /\ text = <<>>
    /\ raw_text = <<>>
    /\ InitService
    /\ settings.GROQ_API_KEY = None

NextNotes ==
    \/ \E r \in 1..MaxRequests, found \in BOOLEAN : GetNote(r, found)
    \/ \E r \in 1..MaxRequests : Commit(r)

SpecNotes == InitNotes /\ [][NextNotes]_vars

\* ------------------------------------------------------ the text cleanup

\* Everything but text, pc and the cleanup's own variables.
summarizerVars == <<settings, platform, prompt, sumLocals, result, error, site,
                    callLocals, returned, calls, contents, http, dbVars>>

\* x repeated n times.
RECURSIVE Rep(_, _)
Rep(x, n) == IF n = 0 THEN <<>> ELSE x \o Rep(x, n - 1)

\* The texts made of at most n of the pieces in T, one after the other.
RECURSIVE Flatten(_)
Flatten(pieces) == IF pieces = <<>> THEN <<>> ELSE Head(pieces) \o Flatten(Tail(pieces))

TextsOf(T, n) == {Flatten(f) : f \in UNION {[1..k -> T] : k \in 0..n}}

\* Extracted text: words, blanks, tabs and line breaks.
CleanAlphabet == {"a", " ", "\t", NL}

\* Extracted text with citation marks nested in one another: a word, then
\* d opened marks, a number and e closing brackets.
CitationTexts ==
    {<<"a">> \o Rep(<<"1", "[">>, d) \o <<"1">> \o Rep(<<"]">>, e) :
        d \in 0..MaxNest, e \in 0..(MaxNest + 1)}

\* The service is constructed and a caller holds the raw text of a document.
InitCleanup ==
    /\ raw_text \in UNION {SeqsOfLen(CleanAlphabet, n) : n \in 0..MaxCleanLen} \cup CitationTexts
    /\ text = <<>>
    /\ InitService
    /\ settings.GROQ_API_KEY = None

\* What the caller passes: the raw text, then what the last call returned.
CallerText == IF cleaned = <<>> THEN raw_text ELSE cleaned[Len(cleaned)]

\* cleanup_text(t) is called: its parameter is bound.
CleanupText(t) ==
    /\ pc \in {"idle", "cleaned"}
    /\ Len(cleaned) < MaxRuns
    /\ text' = t
    /\ stage' = 0
    /\ ran' = <<>>
    /\ pc' = "cleanup"
    /\ UNCHANGED <<summarizerVars, raw_text, cleaned>>

\* The next statement of cleanup_text: text = self.<stage>(text).
RunStage ==
    /\ pc = "cleanup"
    /\ stage < Len(STAGES)
    /\ text' = CallStage(STAGES[stage + 1], text)
    /\ stage' = stage + 1
    /\ ran' = Append(ran, STAGES[stage + 1])
    /\ UNCHANGED <<summarizerVars, raw_text, cleaned, pc>>

\* `return text`
ReturnText ==
    /\ pc = "cleanup"
    /\ stage = Len(STAGES)
    /\ cleaned' = Append(cleaned, text)
    /\ pc' = "cleaned"
    /\ UNCHANGED <<summarizerVars, raw_text, text, stage, ran>>

NextCleanup ==
    \/ CleanupText(CallerText)
    \/ RunStage
    \/ ReturnText

SpecCleanup == InitCleanup /\ [][NextCleanup]_vars

\* ------------------------------------- one method of the cleanup on its own

\* self.<name>(raw_text) is called on the service object and returns.
CallMethod(name) ==
    /\ pc = "idle"
    /\ ran' = <<name>>
    /\ cleaned' = <<CallStage(name, raw_text)>>
    /\ pc' = "applied"
    /\ UNCHANGED <<summarizerVars, raw_text, text, stage>>

\* The texts each method is called on.
\*   _normalize_unicode: pieces with typographic characters: a letter, the
\*     ASCII quotes, the curly quotes, the trade mark, registered and copyright
\*     signs, the vulgar fractions, and ASCII punctuation as a program text has
\*     it.
\*   _remove_headers_footers: a document, lines of text (a running head, the
\*     same head set off by blanks, a line of the body) and then a tail:
\*     nothing, blank lines enough to give 20 lines with three lines of text,
\*     the same after three lines of 100 characters, blank lines enough to give
\*     more than 200 lines.
\*   _remove_page_numbers: pieces of the lines around page numbers: the word, a
\*     number with and without a blank before it, "of" likewise, a blank, a
\*     dash, a superscript two, a line break.
\*   _normalize_sentences: a small and a capital letter, the comma and the
\*     three terminal marks.
\*   _remove_special_patterns: a letter, a blank, the two brackets, a digit
\*     and the words of a figure and of a table reference.
\*   _fix_hyphenated_words: a letter, the hyphen, a line break and a blank.
\*   _join_broken_paragraphs: a word, a word that ends a sentence, a word
\*     with a colon, a blank and a line break.
MethodTexts ==
    LET LongLine == [k \in 1..100 |-> "y"]
        Newlines(n) == [k \in 1..n |-> NL]
        Tails == { <<>>,
                   Newlines(16),
                   LongLine \o <<NL>> \o LongLine \o <<NL>> \o LongLine \o Newlines(17),
                   Newlines(200) }
    IN  [_normalize_unicode |->
             TextsOf({<<"a">>, <<"'">>, <<"\"">>,
                      <<"U+2018">>, <<"U+2019">>, <<"U+201C">>, <<"U+201D">>,
                      <<"U+2122">>, <<"U+00AE">>, <<"U+00A9">>,
                      <<"U+00BD">>, <<"U+00BC">>, <<"U+00BE">>,
                      <<":", " ", "'", "\"", "'", ",", " ">>},
                     MaxUnicodeLen),
         _remove_headers_footers |->
             {head \o tail :
                 head \in TextsOf({<<"h", NL>>, <<" ", "h", " ", NL>>, <<"x", NL>>},
                                  MaxHeadLines),
                 tail \in Tails},
         _remove_page_numbers |->
             TextsOf({<<"P", "a", "g", "e">>, <<"3">>, <<" ", "3">>, <<"o", "f">>,
                      <<" ", "o", "f">>, <<" ">>, <<"-">>, <<"U+00B2">>, <<NL>>},
                     MaxPageTokens),
         _normalize_sentences |->
             TextsOf({<<"a">>, <<"A">>, <<",">>, <<".">>, <<"!">>, <<"?">>},
                     MaxSentenceLen),
         _remove_special_patterns |->
             TextsOf({<<"a">>, <<" ">>, <<"[">>, <<"]">>, <<"1">>,
                      <<"f", "i", "g", "u", "r", "e">>, <<"T", "A", "B", "L", "E">>},
                     MaxPatternLen),
         _fix_hyphenated_words |->
             UNION {SeqsOfLen({"a", "-", NL, " "}, n) : n \in 0..MaxHyphenLen},
         _join_broken_paragraphs |->
             TextsOf({<<"a">>, <<"a", ".">>, <<"a", ":">>, <<" ">>, <<NL>>},
                     MaxParagraphLen)]

\* The caller holds a text for one of the methods.
InitMethods ==
    /\ raw_text \in UNION {MethodTexts[name] : name \in DOMAIN MethodTexts}
    /\ text = <<>>
    /\ InitService
    /\ settings.GROQ_API_KEY = None

NextMethods ==
    \E name \in DOMAIN MethodTexts : raw_text \in MethodTexts[name] /\ CallMethod(name)

SpecMethods == InitMethods /\ [][NextMethods]_vars

\* ------------------------------------------------------------- properties

\* The sequence of k status codes 429.
RateLimited(k) == [j \in 1..k |-> 429]

\* C1: a call answered 429 k times (k <= 2) and then 200 with a choice returns
\* the content of that answer's first choice after exactly k + 1 POSTs and k
\* sleeps; a call answered 429 three times raises RuntimeError after exactly
\* 3 POSTs and 2 sleeps; no call ever sends a fourth POST.
C1_RetryThenAnswer ==
    /\ posts <= MAX_RETRIES + 1
    /\ \A k \in 0..MAX_RETRIES :
         (answers = RateLimited(k) \o <<200>> /\ response.choices # <<>>) =>
            /\ pc \in {"back", "returned"}
            /\ posts = k + 1
            /\ Len(waits) = k
            /\ pc = "back" => returned = response.choices[1].message.content
    /\ (Len(answers) > MAX_RETRIES /\ SubSeq(answers, 1, MAX_RETRIES + 1) = RateLimited(MAX_RETRIES + 1)) =>
            /\ pc = "raised"
            /\ error.type = "RuntimeError"
            /\ error.status = 429
            /\ posts = MAX_RETRIES + 1
            /\ Len(waits) = MAX_RETRIES

\* C1's cases: a call that returned on its third POST, after two 429 answers.
C1_Witness ==
    /\ pc = "back"
    /\ answers = <<429, 429, 200>>
    /\ posts = 3
    /\ Len(waits) = 2

\* A response that is a failure other than 429, or a 200 without a choice.
Fatal(r) ==
    \/ r.status_code \notin {0, 200, 429}
    \/ r.status_code = 200 /\ r.choices = <<>>

\* C2: once the running call has received a response that is neither 200 nor
\* 429, or a 200 without a choice, summarize has raised RuntimeError, and the
\* call sent no POST and slept no sleep after that response, whichever attempt
\* received it.
C2_FatalAnswerEndsCall ==
    Fatal(response) =>
        /\ pc = "raised"
        /\ error.type = "RuntimeError"
        /\ error.status = response.status_code
        /\ posts = Len(answers)
        /\ Len(waits) = Len(answers) - 1
        /\ attempt = Len(answers) - 1

\* C2's case at a late attempt: a 500 answer to the third POST.
C2_Witness ==
    /\ pc = "raised"
    /\ answers = <<429, 429, 500>>
    /\ posts = 3

\* C3: the sleeps of one call are 3, then 6 (RETRY_BASE_DELAY * 2^(r-1) before
\* retry r); there is one sleep for each 429 answer that a POST followed or
\* will follow, and none after the answer that ends the call.
C3_BackoffDelays ==
    /\ Len(waits) <= MAX_RETRIES
    /\ \A r \in 1..Len(waits) :
         /\ waits[r] = RETRY_BASE_DELAY * Pow2(r - 1)
         /\ waits[r] = <<3, 6>>[r]
         /\ answers[r] = 429
    /\ pc = "sleep" => Len(waits) = Len(answers) /\ posts = Len(answers)
    /\ pc = "await" => Len(waits) = Len(answers) /\ posts = Len(answers) + 1
    /\ (pc \in {"back", "returned", "raised"} /\ Len(answers) = posts /\ posts > 0) =>
         Len(waits) = Len(answers) - 1

\* C3's case: a call that slept 3 and 6 and was then ended by a third 429.
C3_Witness ==
    /\ pc = "raised"
    /\ answers = <<429, 429, 429>>
    /\ waits = <<3, 6>>

\* Every character of t is whitespace (t may be empty).
AllSpace(t) == \A k \in 1..Len(t) : IsSpace(t[k])

\* C4: summarize of an empty or whitespace-only text returns the empty summary
\* with chunk count 0, raises nothing and starts no completion call, whatever
\* the platform argument and the settings.
C4_BlankTextReturnsEmpty ==
    (pc # "idle" /\ AllSpace(text)) =>
        /\ pc = "returned"
        /\ result.summary = <<>>
        /\ result.chunks_processed = 0
        /\ DOMAIN result = {"summary", "chunks_processed"}
        /\ error = NoError
        /\ calls = <<>>
        /\ posts = 0

\* C4's case: a whitespace-only text summarized for a platform that is unknown.
C4_Witness ==
    /\ pc = "returned"
    /\ text # <<>>
    /\ AllSpace(text)
    /\ platform = <<"azure">>
    /\ posts = 0

\* The user message of a payload, and what it starts with.
UserContent(pl) == pl.messages[2].content

IsChunkCall(pl) == UserContent(pl)[1] = "Summarize this section (part "

IsCombineCall(pl) == UserContent(pl)[1] = COMBINE_PROMPT[1]

\* C5: a summarize that returned for a non-blank text started exactly 1 call when
\* the split gave one chunk and exactly N + 1 calls, N chunk calls and then one
\* combine call, when it gave N >= 2 chunks, and reports the number of chunks of
\* the split; no summarize starts more calls than that.
C5_CallCount ==
    (pc \in {"await", "sleep", "back", "returned"} /\ ~AllSpace(text)) =>
        LET N == Len(chunks)
            expected == IF N = 1 THEN 1 ELSE N + 1
        IN  /\ chunks = _split_text(text)
            /\ N >= 1
            /\ Len(calls) <= expected
            /\ pc = "returned" =>
                 /\ Len(calls) = expected
                 /\ result.chunks_processed = N
                 /\ N >= 2 => /\ \A j \in 1..N : IsChunkCall(calls[j])
                              /\ IsCombineCall(calls[N + 1])
                 /\ N = 1 => ~IsChunkCall(calls[1]) /\ ~IsCombineCall(calls[1])

\* C5's case: three chunks, four calls, all returned.
C5_Witness ==
    /\ pc = "returned"
    /\ Len(chunks) = 3
    /\ Len(calls) = 4
    /\ result.chunks_processed = 3

\* The text a chunk call carries after its prompt and the blank line.
ChunkCarried(pl) ==
    SubSeq(UserContent(pl), Len(ChunkPrompt(0, 1)) + Len(SEP) + 1, Len(UserContent(pl)))

\* C6: in the multi-chunk path the calls are started one after the other in
\* chunk order: call j carries chunk j, a call is started only when every
\* earlier call has returned, the combine call only when all N chunk calls
\* have returned, and a POST is in flight only while the one running call awaits.
C6_SequentialChunkCalls ==
    /\ Len(calls) - Len(contents) \in {0, 1}
    /\ Len(calls) > Len(contents) => pc \in {"await", "sleep", "raised"}
    /\ posts - Len(answers) \in {0, 1}
    /\ posts > Len(answers) => pc \in {"await", "raised"}
    /\ Len(chunks) >= 2 =>
         \A j \in 1..Len(calls) :
            /\ Len(contents) >= j - 1
            /\ j <= Len(chunks) => IsChunkCall(calls[j]) /\ ChunkCarried(calls[j]) = chunks[j]
            /\ j > Len(chunks) => IsCombineCall(calls[j]) /\ Len(contents) >= Len(chunks)

\* C6's case: the third chunk's call is awaiting, the first two have returned.
C6_Witness ==
    /\ pc = "await"
    /\ Len(chunks) = 3
    /\ Len(calls) = 3
    /\ Len(contents) = 2
    /\ chunks[1] # chunks[3]

\* The partial summaries the contents returned so far give: each trimmed.
TrimmedContents(n) == [j \in 1..n |-> Strip(contents[j])]

\* C7: in the multi-chunk path the i-th chunk call's user message is the prompt
\* tagged "part i of N", a blank line and chunk i; the combine call's user
\* message is the combine prompt, a blank line and the N returned contents,
\* each trimmed, in chunk order, joined by blank lines; the summary returned
\* is the trimmed content of the combine call.
C7_ChunkAndCombinePayloads ==
    Len(chunks) >= 2 =>
        LET N == Len(chunks)
        IN  /\ \A j \in 1..Len(calls) :
                 j <= N =>
                    UserContent(calls[j]) =
                        <<"Summarize this section (part ", Str(j), " of ", Str(N), "):">>
                        \o <<NL, NL>> \o chunks[j]
            /\ Len(calls) = N + 1 =>
                 UserContent(calls[N + 1]) =
                    COMBINE_PROMPT \o <<NL, NL>> \o Join(TrimmedContents(N))
            /\ pc = "returned" => result.summary = Strip(contents[N + 1])

\* C7's case: a returned three-chunk summarize whose partial summaries differ
\* and whose contents needed trimming.
C7_Witness ==
    /\ pc = "returned"
    /\ Len(chunks) = 3
    /\ contents[1] = CONTENT_A
    /\ contents[2] = CONTENT_B
    /\ partial_summaries = <<Strip(CONTENT_A), Strip(CONTENT_B), Strip(CONTENT_A)>>
    /\ result.summary # contents[4]

\* The platform p has no usable configuration in settings s.
ConfigMissing(s, p) ==
    \/ p \notin {GROQ, OPENROUTER}
    \/ p = GROQ /\ s.GROQ_API_KEY \in {None, <<>>}
    \/ p = OPENROUTER /\ s.OPENROUTER_API_KEY \in {None, <<>>}

\* C8: summarize of a non-blank text whose platform is unknown or has its API
\* key unset or empty raises ValueError to the caller with no call started: no
\* POST, no sleep.
C8_MissingConfigRaisesFirst ==
    (pc # "idle" /\ ~AllSpace(text) /\ ConfigMissing(settings, platform)) =>
        /\ pc = "raised"
        /\ error.type = "ValueError"
        /\ calls = <<>>
        /\ posts = 0
        /\ waits = <<>>
        /\ answers = <<>>

\* C8's case: OpenRouter asked for while its key is the empty string.
C8_Witness ==
    /\ pc = "raised"
    /\ ~AllSpace(text)
    /\ platform = OPENROUTER
    /\ settings.OPENROUTER_API_KEY = <<>>
    /\ error.type = "ValueError"

\* The paragraphs of the chunks cs, in order.
RECURSIVE ParasOf(_)
ParasOf(cs) == IF cs = <<>> THEN <<>> ELSE SplitParas(Head(cs)) \o ParasOf(Tail(cs))

\* C9: the split is greedy on the length of the chunk itself: wherever a chunk
\* ends and the next begins with paragraph p, the chunk joined to p by "\n\n"
\* would have been longer than MAX_CHUNK_CHARS.
C9_GreedyOnChunkLength ==
    pc = "split" =>
        \A j \in 1..(Len(chunks) - 1) :
            Len(chunks[j]) + Len(SEP) + Len(SplitParas(chunks[j + 1])[1]) > MAX_CHUNK_CHARS

\* C10: a chunk of two or more paragraphs is no longer than MAX_CHUNK_CHARS; a
\* longer chunk is one whole paragraph of the text; and the paragraphs of the
\* chunks are the paragraphs of the text, none of them cut.
C10_OversizeChunkIsOneParagraph ==
    pc = "split" =>
        /\ \A j \in 1..Len(chunks) :
              /\ Len(SplitParas(chunks[j])) >= 2 => Len(chunks[j]) <= MAX_CHUNK_CHARS
              /\ Len(chunks[j]) > MAX_CHUNK_CHARS =>
                    /\ SplitParas(chunks[j]) = <<chunks[j]>>
                    /\ \E k \in 1..Len(SplitParas(text)) : SplitParas(text)[k] = chunks[j]
        /\ ParasOf(chunks) = SplitParas(text)

\* C10's cases: an oversize paragraph alone in its chunk, beside another chunk.
C10_Witness ==
    /\ pc = "split"
    /\ Len(chunks) >= 2
    /\ \E j \in 1..Len(chunks) : Len(chunks[j]) > MAX_CHUNK_CHARS

\* The parts joined by the separator sep.
RECURSIVE JoinedBy(_, _)
JoinedBy(parts, sep) ==
    IF parts = <<>> THEN <<>>
    ELSE IF Len(parts) = 1 THEN parts[1]
    ELSE parts[1] \o sep \o JoinedBy(Tail(parts), sep)

\* C11: the split loses, duplicates and reorders nothing: the chunks joined in
\* order by "\n\n" are the text, their paragraphs read in order are the
\* paragraphs of the text, and a text no longer than MAX_CHUNK_CHARS comes back
\* as the one chunk that is the text.
C11_ChunksJoinToText ==
    pc = "split" =>
        /\ JoinedBy(chunks, <<NL, NL>>) = text
        /\ ParasOf(chunks) = SplitParas(text)
        /\ Len(text) <= MAX_CHUNK_CHARS => chunks = <<text>>

\* C11's case: a text split into several chunks that has a blank paragraph and
\* a paragraph that is only a newline.
C11_Witness ==
    /\ pc = "split"
    /\ Len(chunks) >= 3
    /\ \E k \in 1..Len(SplitParas(text)) : SplitParas(text)[k] = <<>>
    /\ \E j \in 1..Len(chunks) : chunks[j] = <<NL>>
    /\ JoinedBy(chunks, <<NL, NL>>) = text

\* C12: the cleanup reaches a fixpoint within two applications: handed its
\* own result, the third call of cleanup_text returns what the second returned.
C12_FixpointWithinTwo ==
    Len(cleaned) >= 3 => cleaned[3] = cleaned[2]

\* The order the stages are to run in.
ExpectedOrder ==
    <<"_normalize_unicode", "_fix_hyphenated_words", "_remove_headers_footers",
      "_remove_page_numbers", "_remove_special_patterns", "_clean_whitespace",
      "_remove_short_lines", "_normalize_sentences", "_join_broken_paragraphs",
      "_clean_whitespace">>

\* How often the running call has called the method name.
TimesRan(name) == Cardinality({k \in DOMAIN ran : ran[k] = name})

\* C13: cleanup_text runs its stages one at a time in this order: unicode,
\* hyphenation, headers and footers, page numbers, special patterns,
\* whitespace, short lines, sentences, paragraphs, whitespace; when it returns
\* every stage has run once, the whitespace stage twice, and the whitespace
\* stage ran last.
C13_StagesInOrder ==
    /\ Len(ran) <= Len(ExpectedOrder)
    /\ \A k \in DOMAIN ran : ran[k] = ExpectedOrder[k]
    /\ pc = "cleanup" => stage = Len(ran)
    /\ pc = "cleaned" =>
          /\ ran = ExpectedOrder
          /\ ran[Len(ran)] = "_clean_whitespace"
          /\ TimesRan("_clean_whitespace") = 2
          /\ \A k \in DOMAIN ran : ran[k] # "_clean_whitespace" => TimesRan(ran[k]) = 1
          /\ cleaned[Len(cleaned)] = text

\* C13's case: the second call of cleanup_text has returned after its ten stages.
C13_Witness ==
    /\ pc = "cleaned"
    /\ Len(cleaned) = 2
    /\ Len(ran) = 10
    /\ cleaned[1] # raw_text
    /\ cleaned[1] # <<>>

\* C14: on the empty text every stage returns the empty text, and so does
\* cleanup_text.
C14_EmptyStaysEmpty ==
    raw_text = <<>> =>
        /\ text = <<>>
        /\ \A j \in DOMAIN cleaned : cleaned[j] = <<>>

\* C14's case: cleanup_text of the empty text has run its ten stages and returned.
C14_Witness ==
    /\ raw_text = <<>>
    /\ pc = "cleaned"
    /\ Len(ran) = 10
    /\ cleaned = << <<>> >>

\* The text t is normalized for whitespace: no tab, no two spaces in a row, no
\* space at the start or the end of a line, no three newlines in a row, no
\* whitespace at its start or end.
WhitespaceNormal(t) ==
    /\ \A k \in DOMAIN t : t[k] # "\t"
    /\ \A k \in 1..(Len(t) - 1) : ~(t[k] = " " /\ t[k + 1] = " ")
    /\ \A k \in DOMAIN t :
          t[k] = " " => /\ k > 1 /\ t[k - 1] # NL
                        /\ k < Len(t) /\ t[k + 1] # NL
    /\ \A k \in 1..(Len(t) - 2) : ~(t[k] = NL /\ t[k + 1] = NL /\ t[k + 2] = NL)
    /\ t # <<>> => ~IsSpace(t[1]) /\ ~IsSpace(t[Len(t)])

\* C15: what cleanup_text returns, and what every whitespace stage leaves, is
\* normalized for whitespace, and the whitespace stage applied to its own
\* result changes nothing.
C15_WhitespaceNormalized ==
    /\ \A j \in DOMAIN cleaned : WhitespaceNormal(cleaned[j])
    /\ (ran # <<>> /\ ran[Len(ran)] = "_clean_whitespace") =>
          /\ WhitespaceNormal(text)
          /\ _clean_whitespace(text) = text

\* C15's case: a raw text with a tab and with blanks at a line's end came back
\* changed and not empty.
C15_Witness ==
    /\ pc = "cleaned"
    /\ \E k \in DOMAIN raw_text : raw_text[k] = "\t"
    /\ \E k \in 1..(Len(raw_text) - 1) : raw_text[k] = " " /\ raw_text[k + 1] = NL
    /\ cleaned[1] # <<>>
    /\ cleaned[1] # raw_text

\* The curly quotes, and the ASCII quote each is to become.
CurlyQuotes == {"U+2018", "U+2019", "U+201C", "U+201D"}

Straight(c) ==
    IF c \in {"U+2018", "U+2019"} THEN "'"
    ELSE IF c \in {"U+201C", "U+201D"} THEN "\"" ELSE c

\* The ASCII characters of the texts handed to _normalize_unicode.
AsciiChars == LOWER \cup UPPER \cup DIGITS \cup {" ", NL, "\t", "'", "\"", ":", ",", ".", "/"}

\* C16: _normalize_unicode leaves no curly quote: in a text of ASCII characters
\* and curly quotes each curly single quote has become the apostrophe, each
\* curly double quote the ASCII double quote, and every ASCII character is as
\* it was.
C16_CurlyQuotesReplaced ==
    pc = "applied" /\ ran = <<"_normalize_unicode">> =>
        /\ \A k \in DOMAIN cleaned[1] : cleaned[1][k] \notin CurlyQuotes
        /\ (\A k \in DOMAIN raw_text : raw_text[k] \in AsciiChars \cup CurlyQuotes) =>
              cleaned[1] = [k \in DOMAIN raw_text |-> Straight(raw_text[k])]

\* What the marks and the fractions are to become.
MarkOrFraction(c) ==
    CASE c \in {"U+2122", "U+00AE", "U+00A9"} -> <<>>
      [] c = "U+00BD" -> <<"1", "/", "2">>
      [] c = "U+00BC" -> <<"1", "/", "4">>
      [] c = "U+00BE" -> <<"3", "/", "4">>
      [] OTHER -> <<c>>

\* C17: _normalize_unicode as a whole, NFKC first and the table second, drops
\* the trade mark, registered and copyright signs and writes the fractions
\* one-half, one-quarter and three-quarters as 1/2, 1/4 and 3/4.
C17_MarksAndFractions ==
    (pc = "applied" /\ ran = <<"_normalize_unicode">> /\ \A k \in DOMAIN raw_text :
                          raw_text[k] \in {"a", "U+2122", "U+00AE", "U+00A9",
                                           "U+00BD", "U+00BC", "U+00BE"}) =>
        cleaned[1] = Flatten([k \in DOMAIN raw_text |-> MarkOrFraction(raw_text[k])])

LinesEqual(t, l) == Cardinality({k \in DOMAIN SplitLines(t) : SplitLines(t)[k] = l})

AllDigits(l) == l # <<>> /\ \A k \in DOMAIN l : l[k] \in DIGITS \cup {"U+00B2", "U+00B3"}

\* <digits>: one decimal digit or more.
Number(l) == l # <<>> /\ \A k \in DOMAIN l : l[k] \in DIGITS

\* The word w whatever the case of its letters.
IsWordOf(l, w) == Len(l) = Len(w) /\ \A k \in DOMAIN l : Lower(l[k]) = w[k]

\* What stands where two words meet: one blank when strict, any whitespace
\* or nothing otherwise.
IsGap(strict, l) == IF strict THEN l = <<" ">> ELSE \A k \in DOMAIN l : IsSpace(l[k])

\* l reads [page gap] <digits> [gap of gap <digits>].
ReadsAsPage(l, strict) ==
    \E lo \in 0..Len(l), hi \in 0..Len(l) :
        LET before == SubSeq(l, 1, lo)
            after == SubSeq(l, hi + 1, Len(l))
        IN  /\ lo < hi
            /\ Number(SubSeq(l, lo + 1, hi))
            /\ \/ before = <<>>
               \/ /\ lo >= 4
                  /\ IsWordOf(SubSeq(before, 1, 4), <<"p", "a", "g", "e">>)
                  /\ IsGap(strict, SubSeq(before, 5, lo))
            /\ \/ after = <<>>
               \/ \E a \in 0..Len(after), b \in 0..Len(after) :
                     /\ a + 2 <= b
                     /\ IsGap(strict, SubSeq(after, 1, a))
                     /\ IsWordOf(SubSeq(after, a + 1, a + 2), <<"o", "f">>)
                     /\ IsGap(strict, SubSeq(after, a + 3, b))
                     /\ Number(SubSeq(after, b + 1, Len(after)))

\* l reads - gap <digits> gap -.
ReadsAsDashed(l, strict) ==
    /\ Len(l) >= 3
    /\ l[1] = "-"
    /\ l[Len(l)] = "-"
    /\ \E lo \in 1..Len(l), hi \in 1..Len(l) :
          /\ lo < hi
          /\ hi < Len(l)
          /\ IsGap(strict, SubSeq(l, 2, lo))
          /\ Number(SubSeq(l, lo + 1, hi))
          /\ IsGap(strict, SubSeq(l, hi + 1, Len(l) - 1))

\* The lines of raw_text that are not page numbers, the words of a page
\* number being set off by a gap.
WithoutPageNumbers(strict) ==
    JoinWith(<<NL>>,
             SelectSeq(SplitLines(raw_text),
                       LAMBDA line : LET l == Strip(line)
                                     IN  ~(AllDigits(l) \/ ReadsAsPage(l, strict)
                                                        \/ ReadsAsDashed(l, strict))))

\* C19 as stated: _remove_page_numbers drops a line exactly when its trimmed
\* form is all digits, or reads "(page )?<digits>( of <digits>)?" whatever the
\* case, or reads "- <digits> -", the words set off by one blank; every other
\* line is kept unchanged and in order.
C19_PageNumbersDropped_AsStated ==
    pc = "applied" /\ ran = <<"_remove_page_numbers">> => cleaned[1] = WithoutPageNumbers(TRUE)

\* C19, amended: _remove_page_numbers drops a line exactly when its trimmed
\* form is all digits, or reads "page" <digits> "of" <digits> whatever the
\* case ("page" and the "of" part each optional), or reads "-" <digits> "-",
\* with any amount of whitespace, none included, where the words meet; every
\* other line is kept unchanged and in order.
C19_PageNumbersDropped ==
    pc = "applied" /\ ran = <<"_remove_page_numbers">> => cleaned[1] = WithoutPageNumbers(FALSE)

\* C19's case: of two lines the first, "Page 3", is dropped and the second is
\* kept.
C19_Witness ==
    /\ pc = "applied" /\ ran = <<"_remove_page_numbers">>
    /\ raw_text = <<"P", "a", "g", "e", " ", "3", NL, "o", "f">>
    /\ cleaned[1] = <<"o", "f">>

\* Every run of terminal marks in t repeats one mark.
UniformRuns(t) ==
    \A k \in 1..(Len(t) - 1) : t[k] \in TERMINAL /\ t[k + 1] \in TERMINAL => t[k] = t[k + 1]

\* t with every run of two or more terminal marks collapsed: the ellipsis for
\* periods, one mark for the others.
RunsCollapsed(t) ==
    LET out[k \in 1..(Len(t) + 1)] ==
            IF k > Len(t) THEN <<>>
            ELSE LET e == RunEnd(t, k, TERMINAL)
                 IN  IF e >= k + 1
                     THEN (IF t[k] = "." THEN <<".", ".", ".">> ELSE <<t[k]>>) \o out[e + 1]
                     ELSE <<t[k]>> \o out[k + 1]
    IN  out[1]

\* C20: _normalize_sentences collapses a run of a repeated "!" or "?" to one
\* mark and turns every run of two or more periods into exactly "...", beside
\* setting a blank after a mark before a capital and after a comma before a
\* letter.
C20_PeriodsBecomeEllipsis ==
    pc = "applied" /\ ran = <<"_normalize_sentences">> /\ UniformRuns(raw_text) =>
        cleaned[1] =
            LET t1 == RunsCollapsed(raw_text)
                t2 == CapitalSub(t1)
            IN  CommaSub(t2)

\* C21: after _remove_special_patterns no citation number is left in the
\* text, neither a bracketed one ("[12]") nor a bare one (a number without
\* brackets), and no "figure N" or "table N" reference in any letter case.
C21_CitationsBracketedAndBare ==
    pc = "applied" /\ ran = <<"_remove_special_patterns">> =>
        LET out == cleaned[1]
            HasNumber(k) == RunEnd(out, k, DIGITS) >= k
            Bracketed(k) ==
                /\ out[k] = "["
                /\ HasNumber(k + 1)
                /\ LitAt(out, RunEnd(out, k + 1, DIGITS) + 1, <<"]">>, FALSE)
            Bare(k) ==
                /\ HasNumber(k)
                /\ k = 1 \/ out[k - 1] \notin DIGITS \cup {"["}
                /\ ~LitAt(out, RunEnd(out, k, DIGITS) + 1, <<"]">>, FALSE)
            Reference(k, word) ==
                /\ LitAt(out, k, word, TRUE)
                /\ HasNumber(SkipSpace(out, k + Len(word)))
        IN  \A k \in DOMAIN out :
                /\ ~Bracketed(k)
                /\ ~Bare(k)
                /\ ~Reference(k, <<"f", "i", "g", "u", "r", "e">>)
                /\ ~Reference(k, <<"t", "a", "b", "l", "e">>)

\* t with every place where a run of letters and digits, "-", a line break
\* and a run of letters and digits follow one another directly rewritten to
\* the two runs, and nothing else changed.
Rejoined(t) ==
    LET ALNUM == LOWER \cup UPPER \cup DIGITS
        out[k \in 1..(Len(t) + 1)] ==
            IF k > Len(t) THEN <<>>
            ELSE LET r == RunEnd(t, k, ALNUM)
                     e == RunEnd(t, r + 3, ALNUM)
                 IN  IF r >= k /\ LitAt(t, r + 1, <<"-", NL>>, FALSE) /\ e >= r + 3
                     THEN SubSeq(t, k, r) \o SubSeq(t, r + 3, e) \o out[e + 1]
                     ELSE <<t[k]>> \o out[k + 1]
    IN  out[1]

\* C22: _fix_hyphenated_words rewrites the text only where an alphanumeric
\* run is followed by "-", then directly by a line break, then directly by an
\* alphanumeric run, joining the two runs; everything else, a hyphen not
\* directly followed by the line break and two words with a blank line
\* between them included, is left as it was.
C22_HyphenOnlyAtLineBreak ==
    pc = "applied" /\ ran = <<"_fix_hyphenated_words">> => cleaned[1] = Rejoined(raw_text)

\* The lines of t that are not blank, trimmed, in their order: a line that
\* follows a line that is not blank and does not end in ".", "!", "?" or ":"
\* is set after it with one blank between, every other line begins a
\* paragraph, and a blank line stands between two paragraphs.
Reflowed(t) ==
    LET lines == SplitLines(t)
        Blank(k) == Strip(lines[k]) = <<>>
        Ends(k) == LET l == Strip(lines[k]) IN l[Len(l)] \in {".", "!", "?", ":"}
        Merged(k) == k > 1 /\ ~Blank(k - 1) /\ ~Ends(k - 1)
        out[k \in 0..Len(lines)] ==
            IF k = 0 THEN <<>>
            ELSE IF Blank(k) THEN out[k - 1]
            ELSE out[k - 1]
                 \o (IF out[k - 1] = <<>> THEN <<>>
                     ELSE IF Merged(k) THEN <<" ">> ELSE <<NL, NL>>)
                 \o Strip(lines[k])
    IN  out[Len(lines)]

\* C23: _join_broken_paragraphs merges a line that is not blank, with one
\* blank, into the paragraph under construction exactly when that paragraph
\* is not empty and its last line does not end in ".", "!", "?" or ":"; a
\* blank line closes the paragraph; the result is the paragraphs in the order
\* of the input with one blank line between them, no line dropped or doubled.
C23_ParagraphsReflowed ==
    pc = "applied" /\ ran = <<"_join_broken_paragraphs">> => cleaned[1] = Reflowed(raw_text)

\* A line is merged into the line before it, the next one begins a paragraph
\* after the full stop: "a\na.\na" gives "a a.\n\na".
C23_Witness ==
    /\ pc = "applied" /\ ran = <<"_join_broken_paragraphs">>
    /\ raw_text = <<"a", NL, "a", ".", NL, "a">>
    /\ cleaned[1] = <<"a", " ", "a", ".", NL, NL, "a">>

\* C24: when a completion call ends in an upstream failure (a status other
\* than 200, the retries exhausted, no choices), both endpoints answer 500 with
\* the fixed detail of the handler: the answer is the same whatever the body
\* of the upstream response was, which never reaches the client.
C24_UpstreamBodyNotSent ==
    pc = "responded" /\ error.type = "RuntimeError" =>
        /\ http = HTTPException(500,
                       IF site = "chat"
                       THEN <<"Error processing your question. Please try again.">>
                       ELSE <<"Error summarizing PDF. Check server logs for details.">>)
        /\ response.text \notin {http.detail, http.data}

\* The chat endpoint has answered a call that failed with a body naming the
\* account.
C24_Witness ==
    /\ pc = "responded" /\ error.type = "RuntimeError" /\ site = "chat"
    /\ response \in OtherBodies
    /\ error.detail = response.text
    /\ http.status_code = 500

\* The call for a chunk has ended without returning a content.
FailedChunk == site = "chunk" /\ Len(calls) > Len(contents) /\ pc \notin {"await", "sleep"}

\* C25: when the call for chunk i of N ends in a fatal error, summarize raises
\* that error: the calls started are those of the chunks up to i and no
\* other, none for a later chunk and no combine call, and nothing is returned,
\* no summary of the chunks that had succeeded either.
C25_FatalChunkStopsSummarize ==
    /\ site = "chunk" => Len(calls) = i + 1 /\ Len(contents) >= i
    /\ FailedChunk =>
          /\ pc = "raised"
          /\ error.type \in {"RuntimeError", "httpx.HTTPError"}
          /\ Fatal(response) \/ Len(answers) = MAX_RETRIES + 1 =>
                error.type = "RuntimeError" /\ error.status = response.status_code
          /\ result = NoResult
          /\ Len(calls) <= Len(chunks)
          /\ \A j \in DOMAIN calls : IsChunkCall(calls[j]) /\ ~IsCombineCall(calls[j])

\* The call for the second of three chunks has failed after the first chunk
\* was summarized.
C25_Witness ==
    /\ FailedChunk
    /\ Len(chunks) = 3
    /\ i = 1
    /\ Len(partial_summaries) = 1
    /\ Fatal(response)

\* C26: the retries are counted per call: every call starts at attempt 0
\* with no sleep behind it and sleeps 3 first, it gives up on a 429 only at
\* its own third POST, however many POSTs the calls before it sent (between
\* one and three each), and a summarize over N >= 2 chunks, N + 1 calls,
\* sends at most 3 * (N + 1) POSTs.
C26_RetryBudgetPerCall ==
    /\ pc \in {"await", "sleep"} => posts = attempt + 1
    /\ pc = "await" => Len(waits) = attempt
    /\ waits # <<>> => waits[1] = 3
    /\ (pc = "raised" /\ error.status = 429) => posts = MAX_RETRIES + 1
    /\ calls # <<>> =>
         total_posts - posts \in (Len(calls) - 1)..(3 * (Len(calls) - 1))
    /\ Len(chunks) >= 2 => total_posts <= 3 * (Len(chunks) + 1)
    /\ Len(chunks) = 1 => total_posts <= 3

\* The second call is at its third POST after the first call needed three.
C26_Witness ==
    /\ Len(calls) = 2
    /\ total_posts = 6
    /\ posts = 3
    /\ waits = <<3, 6>>
    /\ pc = "await"

\* C27: for a text with a character that is not whitespace, every chunk of
\* the split, and so every chunk summarize sends in a call, holds a character
\* that is not whitespace: no chunk is empty or blank.
C27_NoBlankChunkSent ==
    ~AllSpace(text) =>
        /\ \A j \in DOMAIN chunks : ~AllSpace(chunks[j])
        /\ \A j \in DOMAIN calls :
              IsChunkCall(calls[j]) => ~AllSpace(ChunkCarried(calls[j]))

\* C28: in every state reached through register, create-admin, login and
\* toggle-active from the seeded state, every account of role super_admin
\* has is_active true; a toggle-active whose target is a super admin or the
\* caller is rejected and changes no row.
C28_SuperAdminsStayActive ==
    /\ [](\A u \in 1..MaxUsers : users[u].role = "super_admin" => users[u].is_active)
    /\ [][(/\ reply'.endpoint = "toggle-active"
           /\ reply'.target \in 1..MaxUsers
           /\ \/ users[reply'.target].role = "super_admin"
              \/ reply'.target = reply'.caller)
          => reply'.status_code \in {400, 401, 403} /\ users' = users]_vars

\* The seeded super admin asked to disable a second super admin and was
\* answered 403.
C28_Witness ==
    /\ reply = [endpoint |-> "toggle-active", caller |-> 1, target |-> 2, status_code |-> 403]
    /\ users[2] = [role |-> "super_admin", is_active |-> TRUE]
    /\ 1 \in tokens

\* C29: a request that an admin whose is_active is false sends, with a
\* token it holds, to an endpoint behind require_admin or
\* require_super_admin is answered 403 and changes neither a row nor the
\* tokens; a guarded endpoint has answered 200 only to an account that is
\* active, so access is back only once a toggle-active has set is_active
\* true again.
C29_DisabledAdminRejected ==
    /\ [][\A c \in 1..MaxUsers :
            (/\ users[c].role = "admin"
             /\ ~users[c].is_active
             /\ c \in tokens
             /\ reply'.caller = c
             /\ reply'.endpoint \in {"create-admin", "toggle-active", "list-users"})
            => reply'.status_code = 403 /\ users' = users /\ tokens' = tokens]_vars
    /\ []((/\ reply.endpoint \in {"create-admin", "toggle-active", "list-users"}
           /\ reply.status_code = 200)
          => users[reply.caller].is_active)

\* An admin that logged in and was disabled afterwards asked for the list
\* of users with its token and was answered 403.
C29_Witness ==
    /\ reply = [endpoint |-> "list-users", caller |-> 2, target |-> 0, status_code |-> 403]
    /\ users[2] = [role |-> "admin", is_active |-> FALSE]
    /\ 2 \in tokens

\* C30: when no request is in progress, the stored view count is the
\* initial one (0) plus the number of requests answered 200.
C30_ViewsCountEveryGet ==
    (\A r \in 1..MaxRequests : sessions[r].pc # "open")
        => views = Cardinality({r \in 1..MaxRequests :
                                  sessions[r].pc = "closed" /\ sessions[r].status_code = 200})

====
